---- MODULE Spec2Model ----
(***************************************************************************)
(* A model of the graph-commands core: the DirectedGraph store, the       *)
(* constraint engine, the traversal iterators and the algorithms built on *)
(* them.  Vertices are naturals, an Edge(u, v) is the tuple <<u, v>>, a    *)
(* Path is the sequence of its vertices, a ScoredPath is a record         *)
(* [path, score], and an Option is None or Some(x).                       *)
(*                                                                         *)
(* Each family of operations has its own specification (SpecTopo,         *)
(* SpecShortest, ...).  They share the variables below; a specification   *)
(* leaves the variables of the other families at their idle values.       *)
(***************************************************************************)
EXTENDS Integers, Sequences, FiniteSets, TLC

VARIABLES
    edge_map,   \* DirectedGraph.edge_map: VertexId -> Vec<Edge>
    pc,         \* where the caller is: "build", "run", "done", ...
    call,       \* the function under study and its arguments
    result,     \* what that function returned
    iter,       \* the fields of the iterator under study
    yielded,    \* the items its next() has returned so far, in order
    flow,       \* max_flow's locals: current_flow and max_flow
    cons,       \* the constraint engine's inputs and verdicts
    files       \* the files that exist under the command-line tools' root

vars == <<edge_map, pc, call, result, iter, yielded, flow, cons, files>>

\* ------------------------------------------------------------------ bounds
\* The vertex universes are small sets; the numeric bounds cap the inputs.
Vertices == {1, 2, 3}
MaxEdges == 3
MaxSpEdges == 3
MaxCyEdges == 4
MaxBestEdges == 3
Costs == {0, 1}
MaxConEdges == 3
MaxHeldLen == 4
MaxFlowEdges == 7
MaxConstraints == 3
MaxGraphEdges == 3
MaxSearchEdges == 4
MaxCycleLen == 4
MaxCommandEdges == 3
MaxRuns == 2
MaxSpfaTurns == 7
MaxLoopEdges == 4
Capacities == {0, 1, 2}
Weights == {-1, 1}
\* The constraint engine's inputs: trees of depth up to MaxDepth grown from
\* the leaves below, paths of up to MaxPathLen vertices of CVertices.
MaxDepth == 2
MaxPathLen == 2
CVertices == {1, 2}
CScores == {-1, 0, 1}
\* The vertex lists handed to Cycle::from_vertices: up to MaxCycleLen vertices
\* of CycleIds.
CycleIds == {1, 2, 3, 4}
\* The command-line processes that work on one root directory, each calling
\* with_lock up to MaxRuns times.
Procs == {1, 2, 3}

\* ------------------------------------------------------------- Option<T>
None == [some |-> FALSE]
Some(x) == [some |-> TRUE, val |-> x]

\* The idle value of a variable a specification does not use.
Idle == [idle |-> TRUE]

\* --------------------------------------------------------------- helpers
\* Every order in which a HashMap may hand out the elements of S.
Orders(S) ==
    {f \in [1..Cardinality(S) -> S] : \A x \in S : \E i \in 1..Cardinality(S) : f[i] = x}

Range(s) == {s[i] : i \in 1..Len(s)}

RECURSIVE SumLens(_, _)
SumLens(m, keys) ==
    IF keys = {} THEN 0
    ELSE LET k == CHOOSE x \in keys : TRUE
         IN Len(m[k]) + SumLens(m, keys \ {k})

RECURSIVE Flatten(_)
Flatten(ss) == IF ss = <<>> THEN <<>> ELSE Head(ss) \o Flatten(Tail(ss))

\* ------------------------------------------------------- DirectedGraph
EmptyGraph == <<>>

vertex_count(g) == Cardinality(DOMAIN g)

\* The total of the stored lists, halved.
edge_count(g) == SumLens(g, DOMAIN g) \div 2

contains_vertex(g, v) == v \in DOMAIN g

contains_edge(g, e) ==
    IF contains_vertex(g, e[1]) /\ contains_vertex(g, e[2])
    THEN \E i \in 1..Len(g[e[1]]) : g[e[1]][i] = e
    ELSE FALSE

outbound_edges(g, v) ==
    IF v \in DOMAIN g THEN SelectSeq(g[v], LAMBDA e : e[1] = v) ELSE <<>>

inbound_edges(g, v) ==
    IF v \in DOMAIN g THEN SelectSeq(g[v], LAMBDA e : e[2] = v) ELSE <<>>

\* edges() walks the map's keys in the map's order `order`.
edges(g, order) ==
    Flatten([i \in 1..Len(order) |-> outbound_edges(g, order[i])])

add_vertex_graph(g, v) == IF v \in DOMAIN g THEN g ELSE g @@ (v :> <<>>)

add_vertex_ret(g, v) == v \in DOMAIN g

\* A slip of the pen: the edge is pushed on the list of its destination
\* even when that is the list of its source.
add_edge_graph_twice(g, e) ==
    IF ~contains_edge(g, e)
    THEN LET g1 == add_vertex_graph(add_vertex_graph(g, e[1]), e[2])
             g2 == [g1 EXCEPT ![e[1]] = Append(@, e)]
         IN [g2 EXCEPT ![e[2]] = Append(@, e)]
    ELSE g

\* A slip of the pen: the edge is pushed without looking for it first.
add_edge_graph_unchecked(g, e) ==
    LET g1 == add_vertex_graph(add_vertex_graph(g, e[1]), e[2])
        g2 == [g1 EXCEPT ![e[1]] = Append(@, e)]
    IN IF e[1] # e[2] THEN [g2 EXCEPT ![e[2]] = Append(@, e)] ELSE g2

add_edge_graph(g, e) ==
    IF ~contains_edge(g, e)
    THEN LET g1 == add_vertex_graph(add_vertex_graph(g, e[1]), e[2])
             g2 == [g1 EXCEPT ![e[1]] = Append(@, e)]
         IN IF e[1] # e[2] THEN [g2 EXCEPT ![e[2]] = Append(@, e)] ELSE g2
    ELSE g

add_edge_ret(g, e) == ~contains_edge(g, e)

\* remove_edge: retain(|e| *e != edge) on the list of the source, then on
\* the list of the destination, where there is one.
retain_not(g, v, edge) ==
    IF v \in DOMAIN g THEN [g EXCEPT ![v] = SelectSeq(@, LAMBDA e : e # edge)] ELSE g

\* A slip of the pen: the edge the other way round is removed as well.
remove_edge_graph_both_ways(g, edge) ==
    LET back == <<edge[2], edge[1]>>
    IN retain_not(retain_not(retain_not(retain_not(g, edge[1], edge), edge[2], edge),
                             edge[1], back), edge[2], back)

remove_edge_graph(g, edge) == retain_not(retain_not(g, edge[1], edge), edge[2], edge)

remove_edge_ret(g, edge) == TRUE

RECURSIVE remove_edges(_, _)
remove_edges(g, es) ==
    IF es = <<>> THEN g ELSE remove_edges(remove_edge_graph(g, Head(es)), Tail(es))

\* A slip of the pen: the key is removed and the edges are left where they
\* are.
remove_vertex_graph_key_only(g, vertex_id) == [v \in DOMAIN g \ {vertex_id} |-> g[v]]

\* remove_vertex: the key is removed, then every edge its list held.
remove_vertex_graph(g, vertex_id) ==
    LET es == IF vertex_id \in DOMAIN g THEN g[vertex_id] ELSE <<>>
        g1 == [v \in DOMAIN g \ {vertex_id} |-> g[v]]
    IN remove_edges(g1, es)

remove_vertex_ret(g, vertex_id) == vertex_id \in DOMAIN g

\* The edges a graph really holds (what edges() produces, as a set).
EdgeSet(g) == {e \in (DOMAIN g) \X (DOMAIN g) : contains_edge(g, e)}

\* -------------------------------------------------------- GraphCommand
\* A GraphCommand is a record: its variant and the one or two vertices.
CmdAddVertex(v) == [cmd |-> "AddVertex", v1 |-> v, v2 |-> v]
CmdRemoveVertex(v) == [cmd |-> "RemoveVertex", v1 |-> v, v2 |-> v]
CmdAddEdge(v1, v2) == [cmd |-> "AddEdge", v1 |-> v1, v2 |-> v2]
CmdRemoveEdge(v1, v2) == [cmd |-> "RemoveEdge", v1 |-> v1, v2 |-> v2]

apply_to(command, g) ==
    CASE command.cmd = "AddVertex" -> add_vertex_graph(g, command.v1)
      [] command.cmd = "RemoveVertex" -> remove_vertex_graph(g, command.v1)
      [] command.cmd = "AddEdge" -> add_edge_graph(g, <<command.v1, command.v2>>)
      [] command.cmd = "RemoveEdge" -> remove_edge_graph(g, <<command.v1, command.v2>>)

RECURSIVE apply_commands(_, _)
apply_commands(commands, g) ==
    IF commands = <<>> THEN g
    ELSE apply_commands(Tail(commands), apply_to(Head(commands), g))

\* A slip of the pen: the loop over the vertices left out.
as_commands_edges_only(g, order) ==
    [i \in 1..Len(edges(g, order)) |-> CmdAddEdge(edges(g, order)[i][1], edges(g, order)[i][2])]

\* as_commands: vertices() then edges(), both in the map's order `order`.
as_commands(g, order) ==
    [i \in 1..Len(order) |-> CmdAddVertex(order[i])]
        \o [i \in 1..Len(edges(g, order)) |->
               CmdAddEdge(edges(g, order)[i][1], edges(g, order)[i][2])]

\* ------------------------------------------------------------ lock file
\* The file system is the set of the paths that exist.  An io::Result is
\* "Ok" or "Err".
LOCK_FILE == "lock"

\* touch: OpenOptions create(true).write(true).open(path): the file is
\* created when it is not there and opened when it is; the call succeeds
\* either way.
touch(fs, path) == [files |-> fs \cup {path}, ret |-> "Ok"]

\* fs::remove_file: an error when the file is not there.
remove_file(fs, path) ==
    IF path \in fs THEN [files |-> fs \ {path}, ret |-> "Ok"]
    ELSE [files |-> fs, ret |-> "Err"]

lock(fs) == touch(fs, LOCK_FILE)

unlock(fs) == remove_file(fs, LOCK_FILE)

is_locked(fs) == LOCK_FILE \in fs

\* ------------------------------------------------- topological_sort
\* A slip of the pen: the outbound edges counted instead of the inbound ones.
is_start_vertex_outbound(g, vid) == Len(outbound_edges(g, vid)) = 0

is_start_vertex(g, vid) == Len(inbound_edges(g, vid)) = 0

find_start_vertices(g, order) == SelectSeq(order, LAMBDA vid : is_start_vertex(g, vid))

\* The body of `for edge in children`: st = [start_vertices, removed_edges].
RECURSIVE topo_children(_, _, _)
topo_children(g, children, st) ==
    IF children = <<>> THEN st
    ELSE LET edge == Head(children)
             removed == st.removed_edges \cup {edge}
             dest == edge[2]
             ready == \A e \in Range(inbound_edges(g, dest)) : e \in removed
         IN topo_children(g, Tail(children),
                [start_vertices |-> IF ready THEN Append(st.start_vertices, dest)
                                    ELSE st.start_vertices,
                 removed_edges |-> removed])

\* The `while let Some(start) = start_vertices.pop_front()` loop.
RECURSIVE topo_loop(_, _, _, _)
topo_loop(g, start_vertices, removed_edges, res) ==
    IF start_vertices = <<>> THEN [res |-> res, removed_edges |-> removed_edges]
    ELSE LET start == Head(start_vertices)
             children == SelectSeq(outbound_edges(g, start),
                                   LAMBDA x : x \notin removed_edges)
             st == topo_children(g, children,
                        [start_vertices |-> Tail(start_vertices),
                         removed_edges |-> removed_edges])
         IN topo_loop(g, st.start_vertices, st.removed_edges, Append(res, start))

topological_sort(g, order) ==
    LET end == topo_loop(g, find_start_vertices(g, order), {}, <<>>)
    IN IF Cardinality(end.removed_edges) # edge_count(g) THEN None ELSE Some(end.res)

is_dag(g, order) == topological_sort(g, order).some

\* --------------------------------------------------- shortest paths
\* std::i64::MAX, the score of a vertex with no entry.  TLC's integers stop
\* at 2^31 - 1, which stands for it: the weights are small and no score
\* comes near either value.
I64_MAX == 2147483647

\* A function that may panic (a failed expect, an unwrap of None) either
\* returns a value or panics.
Panic == [panic |-> TRUE]
Returned(x) == [panic |-> FALSE, val |-> x]

scored_path_of(path, score) == [path |-> path, score |-> score]

scored_path_of_one(v, score) == [path |-> <<v>>, score |-> score]

\* HashMap::insert on a map held as a function.
MapInsert(m, k, x) == IF k \in DOMAIN m THEN [m EXCEPT ![k] = x] ELSE m @@ (k :> x)

\* A slip of the pen: a vertex with no entry scored 0 instead of i64::MAX.
current_score_of_vertex_zero(scores, vid) ==
    IF vid \in DOMAIN scores THEN scores[vid].score ELSE 0

current_score_of_vertex(scores, vid) ==
    IF vid \in DOMAIN scores THEN scores[vid].score ELSE I64_MAX

\* skip_while(|v| v != start)
RECURSIVE skip_while_not(_, _)
skip_while_not(s, start) ==
    IF s = <<>> THEN <<>>
    ELSE IF Head(s) # start THEN skip_while_not(Tail(s), start) ELSE s

\* The closure run on each outbound edge of v.  acc is Returned(scores)
\* while nothing has panicked; scores.get(v).expect(..) panics without an
\* entry for v.
RECURSIVE dag_relax_edges(_, _, _, _)
dag_relax_edges(es, v, scorefn, acc) ==
    IF es = <<>> \/ acc.panic THEN acc
    ELSE IF v \notin DOMAIN acc.val THEN Panic
    ELSE LET scores == acc.val
             edge == Head(es)
             w == edge[2]
             new_score == scores[v].score + scorefn[edge]
             new_path == Append(scores[v].path, w)
             next == IF w \in DOMAIN scores
                     THEN IF new_score < scores[w].score
                          THEN MapInsert(scores, w, scored_path_of(new_path, new_score))
                          ELSE scores
                     ELSE MapInsert(scores, w, scored_path_of(new_path, new_score))
         IN dag_relax_edges(Tail(es), v, scorefn, Returned(next))

RECURSIVE dag_for_each(_, _, _, _)
dag_for_each(g, vs, scorefn, acc) ==
    IF vs = <<>> \/ acc.panic THEN acc
    ELSE dag_for_each(g, Tail(vs), scorefn,
             dag_relax_edges(outbound_edges(g, Head(vs)), Head(vs), scorefn, acc))

dag_shortest_paths(g, scorefn, start, order) ==
    LET topo_order == topological_sort(g, order)
    IN IF ~topo_order.some THEN Panic
       ELSE dag_for_each(g, skip_while_not(topo_order.val, start), scorefn,
                Returned(start :> scored_path_of_one(start, 0)))

dag_shortest_path(g, scorefn, start, end, order) ==
    LET r == dag_shortest_paths(g, scorefn, start, order)
    IN IF r.panic THEN Panic
       ELSE IF end \in DOMAIN r.val THEN Returned(Some(r.val[end])) ELSE Returned(None)

\* One pass of `for edge in graph.edges()` of bellman_ford's first loop.
RECURSIVE bf_relax_edges(_, _, _)
bf_relax_edges(es, scorefn, scores) ==
    IF es = <<>> THEN scores
    ELSE LET edge == Head(es)
             u == edge[1]
             v == edge[2]
             weight == scorefn[edge]
             next == IF u \in DOMAIN scores
                        /\ scores[u].score + weight < current_score_of_vertex(scores, v)
                     THEN MapInsert(scores, v,
                              scored_path_of(Append(scores[u].path, v),
                                             scores[u].score + weight))
                     ELSE scores
         IN bf_relax_edges(Tail(es), scorefn, next)

\* `for _ in 1..graph.vertex_count()`: rounds = vertex_count - 1, or none.
RECURSIVE bf_rounds(_, _, _, _)
bf_rounds(n, es, scorefn, scores) ==
    IF n <= 0 THEN scores
    ELSE bf_rounds(n - 1, es, scorefn, bf_relax_edges(es, scorefn, scores))

\* The last pass: some edge can still be relaxed.
bf_can_relax(es, scorefn, scores) ==
    \E i \in 1..Len(es) :
        /\ es[i][1] \in DOMAIN scores
        /\ scores[es[i][1]].score + scorefn[es[i]]
               < current_score_of_vertex(scores, es[i][2])

bellman_ford(g, scorefn, start, order) ==
    LET es == edges(g, order)
        scores == bf_rounds(vertex_count(g) - 1, es, scorefn,
                            start :> scored_path_of_one(start, 0))
    IN IF bf_can_relax(es, scorefn, scores) THEN None ELSE Some(scores)

\* ------------------------------------------------------------- Path
Last(p) == p[Len(p)]

path_contains_vertex(p, v) == \E i \in 1..Len(p) : p[i] = v

\* to_edge_list: the windows of two consecutive vertices.
to_edge_list(p) == [i \in 1..(IF Len(p) < 2 THEN 0 ELSE Len(p) - 1) |-> <<p[i], p[i + 1]>>]

path_contains_edge(p, e) == \E i \in 1..Len(to_edge_list(p)) : to_edge_list(p)[i] = e

path_contains_cycle(p) == \E i, j \in 1..Len(p) : i < j /\ p[i] = p[j]

\* ------------------------------------------------------- Constraint
ContainsVertex(v) == [kind |-> "ContainsVertex", v |-> v]
ContainsEdge(e) == [kind |-> "ContainsEdge", e |-> e]
OrderedVertices(ordered) == [kind |-> "OrderedVertices", ordered |-> ordered]
ContainsCycle == [kind |-> "ContainsCycle"]
MinLength(len) == [kind |-> "MinLength", len |-> len]
MaxLength(len) == [kind |-> "MaxLength", len |-> len]
MinScore(score) == [kind |-> "MinScore", score |-> score]
MaxScore(score) == [kind |-> "MaxScore", score |-> score]
Or(c1, c2) == [kind |-> "Or", c1 |-> c1, c2 |-> c2]
Xor(c1, c2) == [kind |-> "Xor", c1 |-> c1, c2 |-> c2]
And(c1, c2) == [kind |-> "And", c1 |-> c1, c2 |-> c2]
Not(c1) == [kind |-> "Not", c1 |-> c1]

\* vertex_to_index: a later insert of the same vertex replaces the earlier
\* one, so a vertex maps to its last (0-based) position in `ordered`.
vertex_to_index(ordered, vertex) ==
    (CHOOSE i \in 1..Len(ordered) :
        ordered[i] = vertex /\ \A j \in (i + 1)..Len(ordered) : ordered[j] # vertex) - 1

RECURSIVE check_order_from(_, _, _)
check_order_from(vs, ordered, start_from) ==
    IF vs = <<>> THEN TRUE
    ELSE IF Head(vs) \in Range(ordered)
         THEN IF vertex_to_index(ordered, Head(vs)) < start_from THEN FALSE
              ELSE check_order_from(Tail(vs), ordered, vertex_to_index(ordered, Head(vs)))
         ELSE check_order_from(Tail(vs), ordered, start_from)

check_vertices_order(path, ordered) == check_order_from(path, ordered, 0)

\* A slip of the pen: MinLength and MinScore tested on the partial path as
\* they are on a complete one.
RECURSIVE check_partial_literal(_, _)
check_partial_literal(c, partial) ==
    CASE c.kind \in {"ContainsVertex", "ContainsEdge"} -> TRUE
      [] c.kind = "OrderedVertices" -> check_vertices_order(partial.path, c.ordered)
      [] c.kind = "ContainsCycle" -> TRUE
      [] c.kind = "MinLength" -> Len(partial.path) >= c.len
      [] c.kind = "MinScore" -> partial.score >= c.score
      [] c.kind = "MaxLength" -> Len(partial.path) <= c.len
      [] c.kind = "MaxScore" -> partial.score <= c.score
      [] c.kind = "Not" ->
            CASE c.c1.kind = "ContainsVertex" -> ~path_contains_vertex(partial.path, c.c1.v)
              [] c.c1.kind = "ContainsEdge" -> ~path_contains_edge(partial.path, c.c1.e)
              [] c.c1.kind = "ContainsCycle" -> ~path_contains_cycle(partial.path)
              [] OTHER -> TRUE
      [] c.kind = "Or" ->
            check_partial_literal(c.c1, partial) \/ check_partial_literal(c.c2, partial)
      [] c.kind = "And" ->
            check_partial_literal(c.c1, partial) /\ check_partial_literal(c.c2, partial)
      [] c.kind = "Xor" ->
            check_partial_literal(c.c1, partial) \/ check_partial_literal(c.c2, partial)

RECURSIVE check_partial(_, _)
check_partial(c, partial) ==
    CASE c.kind \in {"ContainsVertex", "ContainsEdge"} -> TRUE
      [] c.kind = "OrderedVertices" -> check_vertices_order(partial.path, c.ordered)
      [] c.kind = "ContainsCycle" -> TRUE
      [] c.kind \in {"MinLength", "MinScore"} -> TRUE
      [] c.kind = "MaxLength" -> Len(partial.path) <= c.len
      [] c.kind = "MaxScore" -> partial.score <= c.score
      [] c.kind = "Not" ->
            CASE c.c1.kind = "ContainsVertex" -> ~path_contains_vertex(partial.path, c.c1.v)
              [] c.c1.kind = "ContainsEdge" -> ~path_contains_edge(partial.path, c.c1.e)
              [] c.c1.kind = "ContainsCycle" -> ~path_contains_cycle(partial.path)
              [] OTHER -> TRUE
      [] c.kind = "Or" -> check_partial(c.c1, partial) \/ check_partial(c.c2, partial)
      [] c.kind = "And" -> check_partial(c.c1, partial) /\ check_partial(c.c2, partial)
      [] c.kind = "Xor" -> check_partial(c.c1, partial) \/ check_partial(c.c2, partial)

RECURSIVE check_complete(_, _)
check_complete(c, full) ==
    CASE c.kind = "ContainsVertex" -> path_contains_vertex(full.path, c.v)
      [] c.kind = "ContainsEdge" -> path_contains_edge(full.path, c.e)
      [] c.kind = "OrderedVertices" -> check_vertices_order(full.path, c.ordered)
      [] c.kind = "ContainsCycle" -> path_contains_cycle(full.path)
      [] c.kind = "MinLength" -> Len(full.path) >= c.len
      [] c.kind = "MaxLength" -> Len(full.path) <= c.len
      [] c.kind = "MinScore" -> full.score >= c.score
      [] c.kind = "MaxScore" -> full.score <= c.score
      [] c.kind = "Or" -> check_complete(c.c1, full) \/ check_complete(c.c2, full)
      [] c.kind = "Xor" -> check_complete(c.c1, full) # check_complete(c.c2, full)
      [] c.kind = "And" -> check_complete(c.c1, full) /\ check_complete(c.c2, full)
      [] c.kind = "Not" -> ~check_complete(c.c1, full)

\* ------------------------------------------------- constraint checker
\* Result<(), String>: of an Err only the check that failed is kept.
ok == [ok |-> TRUE]
fail(failure) == [ok |-> FALSE, err |-> failure]

OfKind(constraints, kind) == SelectSeq(constraints, LAMBDA c : c.kind = kind)

\* The constraints under a Not, in the order of the list.
negated_constraints(constraints) ==
    LET nots == OfKind(constraints, "Not")
    IN [i \in 1..Len(nots) |-> nots[i].c1]

check_vertex_inclusion_exclusion(constraints) ==
    LET vertex_inclusions ==
            {c.v : c \in Range(OfKind(constraints, "ContainsVertex"))}
            \cup UNION {{c.e[1], c.e[2]} : c \in Range(OfKind(constraints, "ContainsEdge"))}
        vertex_exclusions ==
            {c.v : c \in Range(OfKind(negated_constraints(constraints), "ContainsVertex"))}
    IN IF vertex_inclusions \cap vertex_exclusions = {} THEN ok ELSE fail("vertices")

check_edge_inclusion_exclusion(constraints) ==
    LET edge_inclusions == {c.e : c \in Range(OfKind(constraints, "ContainsEdge"))}
        edge_exclusions ==
            {c.e : c \in Range(OfKind(negated_constraints(constraints), "ContainsEdge"))}
    IN IF edge_inclusions \cap edge_exclusions = {} THEN ok ELSE fail("edges")

\* Nothing is checked about OrderedVertices.
checker_check_vertices_order(constraints) == ok

check_cycle_inclusion_exclusion(constraints) ==
    LET contains_cycle == OfKind(constraints, "ContainsCycle") # <<>>
        contains_no_cycle == OfKind(negated_constraints(constraints), "ContainsCycle") # <<>>
    IN IF contains_cycle # contains_no_cycle THEN ok ELSE fail("cycle")

check_min_max_length(constraints) ==
    LET min_length == OfKind(constraints, "MinLength")
        max_length == OfKind(constraints, "MaxLength")
    IN IF Len(min_length) > 1 THEN fail("MinLength")
       ELSE IF Len(max_length) > 1 THEN fail("MaxLength")
       ELSE IF min_length # <<>> /\ max_length # <<>>
       THEN (IF min_length[1].len > max_length[1].len THEN fail("min/max length") ELSE ok)
       ELSE ok

check_min_max_score(constraints) ==
    LET min_score == OfKind(constraints, "MinScore")
        max_score == OfKind(constraints, "MaxScore")
    IN IF Len(min_score) > 1 THEN fail("MinScore")
       ELSE IF Len(max_score) > 1 THEN fail("MaxScore")
       ELSE IF min_score # <<>> /\ max_score # <<>>
       THEN (IF min_score[1].score > max_score[1].score THEN fail("min/max score") ELSE ok)
       ELSE ok

\* The checks in turn, the first failure returned (the ? operator).
RECURSIVE first_failure(_)
first_failure(results) ==
    IF results = <<>> THEN ok
    ELSE IF ~Head(results).ok THEN Head(results)
    ELSE first_failure(Tail(results))

validate(constraints) ==
    first_failure(<< check_vertex_inclusion_exclusion(constraints),
                     check_edge_inclusion_exclusion(constraints),
                     checker_check_vertices_order(constraints),
                     check_cycle_inclusion_exclusion(constraints),
                     check_min_max_length(constraints),
                     check_min_max_score(constraints) >>)

\* ------------------------------------------------------ search queues
\* Stack: push_back / pop_back.  Queue: push_back / pop_front.  A queue is
\* held as the sequence of its elements, the oldest first.
stack_push(st, elt) == Append(st, elt)
stack_top(st) == st[Len(st)]
stack_rest(st) == SubSeq(st, 1, Len(st) - 1)
queue_push(q, elt) == Append(q, elt)

\* path.append(v) for each v of vs, pushed in turn.
RECURSIVE push_appended(_, _, _)
push_appended(st, path, vs) ==
    IF vs = <<>> THEN st
    ELSE push_appended(Append(st, Append(path, Head(vs))), path, Tail(vs))

\* The destinations of a list of edges: map(|Edge(_, v)| v).
Destinations(es) == [i \in 1..Len(es) |-> es[i][2]]

\* -------------------------------------------------------------- spfa
\* A slip of the pen: the improved vertex is not pushed on the queue.
RECURSIVE spfa_relax_edges_no_push(_, _, _, _)
spfa_relax_edges_no_push(es, scorefn, scores, q) ==
    IF es = <<>> THEN [scores |-> scores, q |-> q]
    ELSE LET edge == Head(es)
             u == edge[1]
             v == edge[2]
             weight == scorefn[edge]
         IN IF u \in DOMAIN scores
               /\ scores[u].score + weight < current_score_of_vertex(scores, v)
            THEN spfa_relax_edges_no_push(Tail(es), scorefn,
                     MapInsert(scores, v,
                         scored_path_of(Append(scores[u].path, v), scores[u].score + weight)),
                     q)
            ELSE spfa_relax_edges_no_push(Tail(es), scorefn, scores, q)

\* `for edge in graph.outbound_edges(vid)` of spfa's while loop.
RECURSIVE spfa_relax_edges(_, _, _, _)
spfa_relax_edges(es, scorefn, scores, q) ==
    IF es = <<>> THEN [scores |-> scores, q |-> q]
    ELSE LET edge == Head(es)
             u == edge[1]
             v == edge[2]
             weight == scorefn[edge]
         IN IF u \in DOMAIN scores
               /\ scores[u].score + weight < current_score_of_vertex(scores, v)
            THEN spfa_relax_edges(Tail(es), scorefn,
                     MapInsert(scores, v,
                         scored_path_of(Append(scores[u].path, v), scores[u].score + weight)),
                     queue_push(q, v))
            ELSE spfa_relax_edges(Tail(es), scorefn, scores, q)

\* spfa up to its loop.
spfa_new(start) ==
    [scores |-> start :> scored_path_of_one(start, 0), q |-> queue_push(<<>>, start)]

\* One turn of `while let Some(vid) = q.pop()`.
spfa_turn(g, scorefn, st) ==
    spfa_relax_edges(outbound_edges(g, Head(st.q)), scorefn, st.scores, Tail(st.q))

\* ------------------------------------- BreadthFirstIter / DepthFirstIter
\* A slip of the pen: the start vertex queued without being marked visited.
bfs_iter_from_unmarked(start_vertex) ==
    [queue |-> queue_push(<<>>, start_vertex), visited |-> {}]

bfs_iter_from(start_vertex) ==
    [queue |-> queue_push(<<>>, start_vertex), visited |-> {start_vertex}]

dfs_iter_from(start_vertex) ==
    [stack |-> stack_push(<<>>, start_vertex), visited |-> {start_vertex}]

\* The for_each of next(): each destination not yet visited is marked and
\* pushed at the back.
RECURSIVE push_unvisited(_, _, _)
push_unvisited(queue, visited, vs) ==
    IF vs = <<>> THEN [queue |-> queue, visited |-> visited]
    ELSE IF Head(vs) \in visited THEN push_unvisited(queue, visited, Tail(vs))
    ELSE push_unvisited(Append(queue, Head(vs)), visited \cup {Head(vs)}, Tail(vs))

\* BreadthFirstIter::next: pop_front, then the for_each.
bfs_next(g, it) ==
    IF it.queue = <<>> THEN [item |-> None, iter |-> it]
    ELSE LET vid == Head(it.queue)
             r == push_unvisited(Tail(it.queue), it.visited,
                                 Destinations(outbound_edges(g, vid)))
         IN [item |-> Some(vid), iter |-> [queue |-> r.queue, visited |-> r.visited]]

\* DepthFirstIter::next: pop_back, then the for_each.
dfs_next(g, it) ==
    IF it.stack = <<>> THEN [item |-> None, iter |-> it]
    ELSE LET vid == stack_top(it.stack)
             r == push_unvisited(stack_rest(it.stack), it.visited,
                                 Destinations(outbound_edges(g, vid)))
         IN [item |-> Some(vid), iter |-> [stack |-> r.queue, visited |-> r.visited]]

\* ----------------------------- BreadthFirstPathIter / DepthFirstPathIter
bfs_path_iter_from(start_vertex) == [queue |-> queue_push(<<>>, <<start_vertex>>)]

dfs_iter_path_from(start_vertex) == [stack |-> stack_push(<<>>, <<start_vertex>>)]

\* A slip of the pen: the first outbound edge is skipped.
path_extensions_skip_first(g, path) ==
    LET vs == Destinations(outbound_edges(g, Last(path)))
    IN SelectSeq(IF vs = <<>> THEN vs ELSE Tail(vs),
                 LAMBDA v : ~path_contains_vertex(path, v))

\* The destinations the for_each of a path iterator's next() pushes: those
\* the path does not contain.
path_extensions(g, path) ==
    SelectSeq(Destinations(outbound_edges(g, Last(path))),
              LAMBDA v : ~path_contains_vertex(path, v))

bfs_path_next(g, it) ==
    IF it.queue = <<>> THEN [item |-> None, iter |-> it]
    ELSE LET path == Head(it.queue)
         IN [item |-> Some(path),
             iter |-> [queue |-> push_appended(Tail(it.queue), path,
                                               path_extensions(g, path))]]

dfs_path_next(g, it) ==
    IF it.stack = <<>> THEN [item |-> None, iter |-> it]
    ELSE LET path == stack_top(it.stack)
         IN [item |-> Some(path),
             iter |-> [stack |-> push_appended(stack_rest(it.stack), path,
                                               path_extensions(g, path))]]

\* ------------------------------------------------------------ Cycle
\* A slip of the pen: the vector rotated to the right.
rotate_right(vs, k) == SubSeq(vs, Len(vs) - k + 1, Len(vs)) \o SubSeq(vs, 1, Len(vs) - k)

\* rotate_left(k) of a vector.
rotate_left(vs, k) == SubSeq(vs, k + 1, Len(vs)) \o SubSeq(vs, 1, k)

\* min_by hands back the first of the least elements; the position is
\* 0-based.
min_position(vs) ==
    (CHOOSE i \in 1..Len(vs) :
        /\ \A j \in 1..Len(vs) : vs[i] <= vs[j]
        /\ \A j \in 1..(i - 1) : vs[j] # vs[i]) - 1

canonical(vs) == rotate_left(vs, min_position(vs))

\* Cycle::from_vertices (and from_path, which hands it the path's vertices).
from_vertices(vertices) ==
    IF Len(vertices) < 2 \/ Len(vertices) # Cardinality(Range(vertices))
    THEN None
    ELSE Some(vertices)

\* Cycle::is_canonical: the first vertex is the least one.
is_canonical(vs) ==
    LET min_vid == CHOOSE x \in Range(vs) : \A y \in Range(vs) : x <= y
    IN vs[1] = min_vid

\* rposition(|x| x == last) in the path without its last element (1-based
\* here), or 0 when there is none.
rposition_of_last(path) ==
    LET hits == {i \in 1..(Len(path) - 1) : path[i] = path[Len(path)]}
    IN IF hits = {} THEN 0 ELSE CHOOSE i \in hits : \A j \in hits : j <= i

extract_canonical_cycle_from_last(path) ==
    IF path = <<>> \/ rposition_of_last(path) = 0 THEN None
    ELSE Some(canonical(SubSeq(path, rposition_of_last(path), Len(path) - 1)))

\* ------------------------------------------------------- CycleIter
\* A slip of the pen: a found cycle is emitted without looking it up in
\* `returned`.
RECURSIVE cycle_next_no_dedup(_, _, _)
cycle_next_no_dedup(g, stack, returned) ==
    IF stack = <<>> THEN [item |-> None, stack |-> stack, returned |-> returned]
    ELSE LET path == stack_top(stack)
             rest == stack_rest(stack)
             cycle == extract_canonical_cycle_from_last(path)
         IN IF cycle.some
            THEN [item |-> cycle, stack |-> rest, returned |-> returned \cup {cycle.val}]
            ELSE cycle_next_no_dedup(g,
                     push_appended(rest, path, Destinations(outbound_edges(g, Last(path)))),
                     returned)

\* CycleIter::next: the while loop, up to its return.
RECURSIVE cycle_next(_, _, _)
cycle_next(g, stack, returned) ==
    IF stack = <<>> THEN [item |-> None, stack |-> stack, returned |-> returned]
    ELSE LET path == stack_top(stack)
             rest == stack_rest(stack)
             cycle == extract_canonical_cycle_from_last(path)
         IN IF cycle.some /\ cycle.val \notin returned
            THEN [item |-> cycle, stack |-> rest, returned |-> returned \cup {cycle.val}]
            ELSE IF cycle.some THEN cycle_next(g, rest, returned)
            ELSE cycle_next(g,
                     push_appended(rest, path, Destinations(outbound_edges(g, Last(path)))),
                     returned)

\* The vertices without inbound edges in the map's order, or the map's
\* first key when there is none.
find_starting_edges(g, order) ==
    LET res == SelectSeq(order, LAMBDA vid : Len(inbound_edges(g, vid)) = 0)
    IN IF res = <<>> THEN (IF order = <<>> THEN <<>> ELSE <<order[1]>>) ELSE res

cycle_iter(g, order) ==
    [stack |-> [i \in 1..Len(find_starting_edges(g, order)) |->
                   <<find_starting_edges(g, order)[i]>>],
     returned |-> {}]

\* ----------------------------------------------------- priority queues
\* A priority queue is held as the set of its elements: the iterators never
\* push the same ScoredPath twice.  ScoredPaths are ordered by score alone,
\* and which of several paths of equal score a heap pops is not fixed.
\* The path with the lowest score is popped first.
min_priority_pops(queue) == {sp \in queue : \A other \in queue : sp.score <= other.score}

\* The heap turned over: the highest score first.
max_priority_pops(queue) == {sp \in queue : \A other \in queue : sp.score >= other.score}

\* BestFirstIter's PriorityQueue: the plain heap, as the order of the paths
\* that best_iterator_return_reachable_nodes_in_a_breadth_first_search_order
\* expects shows ([1, 5] of score 5 comes before [1, 4] and [1, 2]).
priority_pops(queue) == max_priority_pops(queue)

\* ------------------------------------------------------------ A* costs
\* The cost g of a path, the sum of the weights of its edges, and the zero
\* heuristic h; the iterators are handed f = g + h.
zero_heuristic(path) == 0

RECURSIVE path_cost(_, _)
path_cost(weight, path) ==
    IF Len(path) < 2 THEN 0
    ELSE weight[<<path[1], path[2]>>] + path_cost(weight, Tail(path))

f_score(weight, path) == path_cost(weight, path) + zero_heuristic(path)

\* ------------------------------------------------------- BestFirstIter
best_iter_from(start_vertex) ==
    [queue |-> {scored_path_of(<<start_vertex>>, 1)}, visited |-> {start_vertex}]

\* The for_each of next(): st = [queue, visited].
RECURSIVE best_push_unvisited(_, _, _, _)
best_push_unvisited(vs, weighted_path, weight, st) ==
    IF vs = <<>> THEN st
    ELSE LET v == Head(vs)
             new_path == Append(weighted_path.path, v)
         IN best_push_unvisited(Tail(vs), weighted_path, weight,
                IF v \notin st.visited
                THEN [queue |-> st.queue \cup {scored_path_of(new_path, f_score(weight, new_path))},
                      visited |-> st.visited \cup {v}]
                ELSE st)

\* next() once `weighted_path` has been popped.
best_next(g, weight, it, weighted_path) ==
    best_push_unvisited(Destinations(outbound_edges(g, Last(weighted_path.path))),
        weighted_path, weight,
        [queue |-> it.queue \ {weighted_path}, visited |-> it.visited])

\* -------------------------------------------- ConstrainedBestFirstIter
\* The iterator takes its Constraint from iter::constraint, whose
\* check_partial lets every Not through and which has no ContainsCycle.
RECURSIVE iter_check_partial(_, _)
iter_check_partial(c, partial) ==
    CASE c.kind \in {"ContainsVertex", "ContainsEdge"} -> TRUE
      [] c.kind = "OrderedVertices" -> check_vertices_order(partial.path, c.ordered)
      [] c.kind \in {"MinLength", "MinScore"} -> TRUE
      [] c.kind = "MaxLength" -> Len(partial.path) <= c.len
      [] c.kind = "MaxScore" -> partial.score <= c.score
      [] c.kind = "Not" -> TRUE
      [] c.kind = "Or" -> iter_check_partial(c.c1, partial) \/ iter_check_partial(c.c2, partial)
      [] c.kind = "And" -> iter_check_partial(c.c1, partial) /\ iter_check_partial(c.c2, partial)
      [] c.kind = "Xor" -> iter_check_partial(c.c1, partial) \/ iter_check_partial(c.c2, partial)

check_all_partial_constraints(sp, constraints) ==
    \A i \in 1..Len(constraints) : iter_check_partial(constraints[i], sp)

constrained_best_iter_from(weight, constraints, start_vertex) ==
    [queue |-> {scored_path_of(<<start_vertex>>, f_score(weight, <<start_vertex>>))},
     constraints |-> constraints]

\* next() once `weighted_path` has been popped: every outbound edge gives a
\* new path, queued when it passes every partial check.
constrained_best_next(g, weight, it, weighted_path) ==
    LET vs == Destinations(outbound_edges(g, Last(weighted_path.path)))
        new_scored_path(v) ==
            LET new_path == Append(weighted_path.path, v)
            IN scored_path_of(new_path, f_score(weight, new_path))
    IN [queue |-> (it.queue \ {weighted_path}) \cup
                      {sp \in {new_scored_path(vs[i]) : i \in 1..Len(vs)} :
                           check_all_partial_constraints(sp, it.constraints)},
        constraints |-> it.constraints]

\* ------------------------------------------------------------ max_flow
\* An AugmentingPath is the sequence of its (vertex, direction) pairs;
\* current_flow maps an edge to its (flow, capacity) pair.
augmenting_path_new(start) == << <<start, "Forward">> >>

augmenting_path_edges(path) ==
    [i \in 1..(Len(path) - 1) |-> << <<path[i][1], path[i + 1][1]>>, path[i + 1][2] >>]

augmenting_path_contains_vertex(path, vid) == \E i \in 1..Len(path) : path[i][1] = vid

reverse(edge) == <<edge[2], edge[1]>>

\* entry(edge).and_modify(..): an edge with no entry is left without one.
RECURSIVE update_flow_from(_, _, _)
update_flow_from(current_flow, es, delta) ==
    IF es = <<>> THEN current_flow
    ELSE LET edge == Head(es)[1]
             key == IF Head(es)[2] = "Forward" THEN edge ELSE reverse(edge)
             d == IF Head(es)[2] = "Forward" THEN delta ELSE 0 - delta
         IN update_flow_from(
                IF key \in DOMAIN current_flow
                THEN [current_flow EXCEPT ![key] = <<@[1] + d, @[2]>>]
                ELSE current_flow,
                Tail(es), delta)

\* A slip of the pen: only the first edge of the path is updated.
update_flow_first_edge(current_flow, path, delta) ==
    update_flow_from(current_flow, SubSeq(augmenting_path_edges(path), 1, 1), delta)

update_flow(current_flow, path, delta) ==
    update_flow_from(current_flow, augmenting_path_edges(path), delta)

\* A slip of the pen: the flow already on the edge is not taken off.
edge_residual_capacity_unused(edge, direction, current_flow) ==
    IF direction = "Forward"
    THEN current_flow[edge][2]
    ELSE current_flow[reverse(edge)][1]

edge_residual_capacity(edge, direction, current_flow) ==
    IF direction = "Forward"
    THEN current_flow[edge][2] - current_flow[edge][1]
    ELSE current_flow[reverse(edge)][1]

\* The least residual capacity of the edges of a path of two vertices or
\* more.
residual_capacity(path, current_flow) ==
    LET es == augmenting_path_edges(path)
        caps == {edge_residual_capacity(es[i][1], es[i][2], current_flow) : i \in 1..Len(es)}
    IN CHOOSE c \in caps : \A d \in caps : c <= d

\* The extensions of a path ending at vid: the destination of every outbound
\* edge marked Forward, then the destination of every inbound edge marked
\* Backward, those already on the path left out.
augmenting_extensions(g, path, vid) ==
    LET outs == Destinations(outbound_edges(g, vid))
        ins == Destinations(inbound_edges(g, vid))
        foward_edges == [i \in 1..Len(outs) |-> <<outs[i], "Forward">>]
        backward_edges == [i \in 1..Len(ins) |-> <<ins[i], "Backward">>]
    IN SelectSeq(foward_edges \o backward_edges,
                 LAMBDA x : ~augmenting_path_contains_vertex(path, x[1]))

\* AugmentingPathIter::next on the queue `queue`.  residual_capacity of a
\* path with no edge (the start is the target) finds no minimum and panics.
RECURSIVE augmenting_path_next(_, _, _, _)
augmenting_path_next(g, current_flow, target, queue) ==
    IF queue = <<>> THEN None
    ELSE LET path == Head(queue)
             vid == Last(path)[1]
             queue2 == push_appended(Tail(queue), path, augmenting_extensions(g, path, vid))
         IN IF vid = target /\ Len(path) = 1 THEN Panic
            ELSE IF vid = target /\ residual_capacity(path, current_flow) > 0
            THEN Some(<<path, residual_capacity(path, current_flow)>>)
            ELSE augmenting_path_next(g, current_flow, target, queue2)

find_augmenting_path(g, current_flow, start, target) ==
    augmenting_path_next(g, current_flow, target, <<augmenting_path_new(start)>>)

\* ------------------------------------------------- reference notions
\* Graph-theoretic definitions the claims are stated with (not code).
RECURSIVE ReachSet(_, _)
ReachSet(E, S) ==
    LET S2 == S \cup {e[2] : e \in {d \in E : d[1] \in S}}
    IN IF S2 = S THEN S ELSE ReachSet(E, S2)

\* v is on a directed cycle: some successor of v reaches v.
OnCycle(E, v) == v \in ReachSet(E, {e[2] : e \in {d \in E : d[1] = v}})

HasCycle(g) == \E v \in DOMAIN g : OnCycle(EdgeSet(g), v)

\* Every path of the edge set E that starts with a path of P and repeats no
\* vertex.
RECURSIVE ExtendSimple(_, _)
ExtendSimple(E, P) ==
    LET P2 == P \cup {Append(p, e[2]) : <<p, e>> \in
                        {x \in P \X E : x[2][1] = Last(x[1]) /\ x[2][2] \notin Range(x[1])}}
    IN IF P2 = P THEN P ELSE ExtendSimple(E, P2)

SimplePathsFrom(E, s) == ExtendSimple(E, {<<s>>})

RECURSIVE PathWeight(_, _)
PathWeight(p, scorefn) ==
    IF Len(p) < 2 THEN 0
    ELSE scorefn[<<p[1], p[2]>>] + PathWeight(Tail(p), scorefn)

FollowsEdges(E, p) == \A i \in 1..(Len(p) - 1) : <<p[i], p[i + 1]>> \in E

Min(S) == CHOOSE x \in S : \A y \in S : x <= y

\* The least weight of a simple path from s to v (v reachable from s).
MinDist(E, scorefn, s, v) ==
    Min({PathWeight(p, scorefn) : p \in {q \in SimplePathsFrom(E, s) : Last(q) = v}})

\* A cycle of negative total weight through a vertex reachable from s.
NegCycleReachable(E, scorefn, s) ==
    \E x \in ReachSet(E, {s}) : \E q \in SimplePathsFrom(E, x) :
        /\ <<Last(q), x>> \in E
        /\ PathWeight(q, scorefn) + scorefn[<<Last(q), x>>] < 0

\* ---------------------------------------------------------- the build
\* The caller builds the graph before it runs anything on it.
AddVertex(v) ==
    /\ pc = "build"
    /\ v \notin DOMAIN edge_map
    /\ edge_map' = add_vertex_graph(edge_map, v)
    /\ UNCHANGED <<pc, call, result, iter, yielded, flow, cons, files>>

AddEdge(e, max) ==
    /\ pc = "build"
    /\ Cardinality(EdgeSet(edge_map)) < max
    /\ add_edge_ret(edge_map, e)
    /\ edge_map' = add_edge_graph(edge_map, e)
    /\ UNCHANGED <<pc, call, result, iter, yielded, flow, cons, files>>

\* ------------------------------------------------------------ SpecTopo
TopologicalSort ==
    /\ pc = "build"
    /\ \E order \in Orders(DOMAIN edge_map) :
           /\ call' = [fn |-> "topological_sort"]
           /\ result' = topological_sort(edge_map, order)
    /\ pc' = "done"
    /\ UNCHANGED <<edge_map, iter, yielded, flow, cons, files>>

IsDag ==
    /\ pc = "build"
    /\ \E order \in Orders(DOMAIN edge_map) :
           /\ call' = [fn |-> "is_dag"]
           /\ result' = is_dag(edge_map, order)
    /\ pc' = "done"
    /\ UNCHANGED <<edge_map, iter, yielded, flow, cons, files>>

InitTopo ==
    /\ edge_map = EmptyGraph
    /\ pc = "build"
    /\ call = Idle
    /\ result = None
    /\ iter = Idle
    /\ yielded = <<>>
    /\ flow = Idle
    /\ files = {}
    /\ cons = Idle

NextTopo ==
    \/ \E v \in Vertices : AddVertex(v)
    \/ \E e \in Vertices \X Vertices : AddEdge(e, MaxEdges)
    \/ TopologicalSort
    \/ IsDag

SpecTopo == InitTopo /\ [][NextTopo]_vars

\* -------------------------------------------------------- SpecShortest
DagShortestPaths ==
    /\ pc = "build"
    /\ \E order \in Orders(DOMAIN edge_map), start \in Vertices,
          scorefn \in [EdgeSet(edge_map) -> Weights] :
           /\ call' = [fn |-> "dag_shortest_paths", scorefn |-> scorefn, start |-> start]
           /\ result' = dag_shortest_paths(edge_map, scorefn, start, order)
    /\ pc' = "done"
    /\ UNCHANGED <<edge_map, iter, yielded, flow, cons, files>>

BellmanFord ==
    /\ pc = "build"
    /\ \E order \in Orders(DOMAIN edge_map), start \in Vertices,
          scorefn \in [EdgeSet(edge_map) -> Weights] :
           /\ call' = [fn |-> "bellman_ford", scorefn |-> scorefn, start |-> start]
           /\ result' = bellman_ford(edge_map, scorefn, start, order)
    /\ pc' = "done"
    /\ UNCHANGED <<edge_map, iter, yielded, flow, cons, files>>

InitShortest == InitTopo

NextShortest ==
    \/ \E e \in Vertices \X Vertices : AddEdge(e, MaxSpEdges)
    \/ DagShortestPaths
    \/ BellmanFord

SpecShortest == InitShortest /\ [][NextShortest]_vars

\* ------------------------------------------------------ SpecConstraint
\* One leaf of every variant, and the ones a tree is grown with.
LeafConstraints ==
    {ContainsVertex(v) : v \in CVertices}
    \cup {ContainsEdge(<<1, 2>>), ContainsEdge(<<2, 2>>)}
    \cup {OrderedVertices(<<1, 2>>), OrderedVertices(<<2, 1>>)}
    \cup {ContainsCycle, MinLength(2), MaxLength(1), MinScore(1), MaxScore(0)}

OperandConstraints == {ContainsVertex(2), MaxLength(1), MaxScore(0), Not(ContainsCycle)}

CPaths == UNION {[1..n -> CVertices] : n \in 1..MaxPathLen}

WrapNot ==
    /\ pc = "build"
    /\ cons.depth < MaxDepth
    /\ cons' = [cons EXCEPT !.constraint = Not(@), !.depth = @ + 1]
    /\ UNCHANGED <<edge_map, pc, call, result, iter, yielded, flow, files>>

WrapBinary ==
    /\ pc = "build"
    /\ cons.depth < MaxDepth
    /\ \E c2 \in OperandConstraints :
           \/ cons' = [cons EXCEPT !.constraint = Or(@, c2), !.depth = @ + 1]
           \/ cons' = [cons EXCEPT !.constraint = Xor(@, c2), !.depth = @ + 1]
           \/ cons' = [cons EXCEPT !.constraint = And(@, c2), !.depth = @ + 1]
    /\ UNCHANGED <<edge_map, pc, call, result, iter, yielded, flow, files>>

\* check_complete on a path and check_partial on each of its prefixes, with
\* every score that is not greater than the score of the whole path.
CheckPath ==
    /\ pc = "build"
    /\ \E path \in CPaths, score \in CScores :
           LET full == scored_path_of(path, score)
           IN cons' = [cons EXCEPT
                  !.full = full,
                  !.complete = check_complete(cons.constraint, full),
                  !.partial = [x \in (1..Len(path)) \X {s \in CScores : s <= score} |->
                                  check_partial(cons.constraint,
                                      scored_path_of(SubSeq(path, 1, x[1]), x[2]))]]
    /\ pc' = "checked"
    /\ UNCHANGED <<edge_map, call, result, iter, yielded, flow, files>>

InitConstraint ==
    /\ edge_map = EmptyGraph
    /\ pc = "build"
    /\ call = Idle
    /\ result = None
    /\ iter = Idle
    /\ yielded = <<>>
    /\ flow = Idle
    /\ files = {}
    /\ \E c \in LeafConstraints :
           cons = [constraint |-> c, depth |-> 0, full |-> scored_path_of(<<>>, 0),
                   complete |-> FALSE, partial |-> <<>>]

NextConstraint ==
    \/ WrapNot
    \/ WrapBinary
    \/ CheckPath

SpecConstraint == InitConstraint /\ [][NextConstraint]_vars

\* ----------------------------------------------------------- SpecGraph
\* Any sequence of the four mutations, on graphs of at most MaxGraphEdges
\* edges.  `call` keeps the last call: what it was given, the graph it was
\* made on, what it returned, and whether the call before it was the same.
Mutated(fn, arg, ret, g) ==
    /\ pc = "build"
    /\ Cardinality(EdgeSet(g)) <= MaxGraphEdges
    /\ edge_map' = g
    /\ call' = [fn |-> fn, arg |-> arg, ret |-> ret, before |-> edge_map,
                again |-> call # Idle /\ call.fn = fn /\ call.arg = arg]
    /\ UNCHANGED <<pc, result, iter, yielded, flow, cons, files>>

GraphAddVertex(v) ==
    Mutated("add_vertex", v, add_vertex_ret(edge_map, v), add_vertex_graph(edge_map, v))

GraphRemoveVertex(v) ==
    Mutated("remove_vertex", v, remove_vertex_ret(edge_map, v), remove_vertex_graph(edge_map, v))

GraphAddEdge(e) ==
    Mutated("add_edge", e, add_edge_ret(edge_map, e), add_edge_graph(edge_map, e))

GraphRemoveEdge(e) ==
    Mutated("remove_edge", e, remove_edge_ret(edge_map, e), remove_edge_graph(edge_map, e))

InitGraph == InitTopo

NextGraph ==
    \/ \E v \in Vertices : GraphAddVertex(v)
    \/ \E v \in Vertices : GraphRemoveVertex(v)
    \/ \E e \in Vertices \X Vertices : GraphAddEdge(e)
    \/ \E e \in Vertices \X Vertices : GraphRemoveEdge(e)

SpecGraph == InitGraph /\ [][NextGraph]_vars

\* -------------------------------------------------------- SpecValidate
\* A constraint list is put together, one constraint at a time, and handed
\* to validate.
ListedConstraints ==
    { ContainsVertex(1), ContainsVertex(2), Not(ContainsVertex(1)),
      ContainsEdge(<<1, 2>>), Not(ContainsEdge(<<1, 2>>)),
      ContainsCycle, Not(ContainsCycle),
      MinLength(1), MinLength(3), MaxLength(2), MaxLength(5),
      MinScore(0), MinScore(1), MaxScore(0) }

PushConstraint ==
    /\ pc = "build"
    /\ Len(cons) < MaxConstraints
    /\ \E c \in ListedConstraints : cons' = Append(cons, c)
    /\ UNCHANGED <<edge_map, pc, call, result, iter, yielded, flow, files>>

Validate ==
    /\ pc = "build"
    /\ call' = [fn |-> "validate", constraints |-> cons]
    /\ result' = validate(cons)
    /\ pc' = "done"
    /\ UNCHANGED <<edge_map, iter, yielded, flow, cons, files>>

InitValidate ==
    /\ edge_map = EmptyGraph
    /\ pc = "build"
    /\ call = Idle
    /\ result = None
    /\ iter = Idle
    /\ yielded = <<>>
    /\ flow = Idle
    /\ files = {}
    /\ cons = <<>>

NextValidate ==
    \/ PushConstraint
    \/ Validate

SpecValidate == InitValidate /\ [][NextValidate]_vars

\* ----------------------------------------------------------- SpecCycle
CycleIterNew ==
    /\ pc = "build"
    /\ \E order \in Orders(DOMAIN edge_map) :
           /\ iter' = cycle_iter(edge_map, order)
           /\ call' = [fn |-> "cycle_iter", starts |-> Range(find_starting_edges(edge_map, order))]
    /\ pc' = "iter"
    /\ UNCHANGED <<edge_map, result, yielded, flow, cons, files>>

CycleNext ==
    /\ pc = "iter"
    /\ LET r == cycle_next(edge_map, iter.stack, iter.returned)
       IN /\ iter' = [stack |-> r.stack, returned |-> r.returned]
          /\ result' = r.item
          /\ yielded' = IF r.item.some THEN Append(yielded, r.item.val) ELSE yielded
          /\ pc' = IF r.item.some THEN "iter" ELSE "exhausted"
    /\ UNCHANGED <<edge_map, call, flow, cons, files>>

InitCycle == InitTopo

NextCycle ==
    \/ \E v \in Vertices : AddVertex(v)
    \/ \E e \in Vertices \X Vertices : AddEdge(e, MaxCyEdges)
    \/ CycleIterNew
    \/ CycleNext

SpecCycle == InitCycle /\ [][NextCycle]_vars

\* ------------------------------------------------------------ SpecBest
\* best_iter_from on its own (end = 0, no vertex) or inside
\* a_star::shortest_path, whose find() calls next() until a path ends at
\* `end`.
NoVertex == 0

BestIterFrom ==
    /\ pc = "build"
    /\ \E start \in Vertices, end \in Vertices \cup {NoVertex},
          weight \in [EdgeSet(edge_map) -> Costs] :
           /\ call' = [fn |-> IF end = NoVertex THEN "best_iter_from" ELSE "shortest_path",
                       weight |-> weight, start |-> start, end |-> end]
           /\ iter' = best_iter_from(start)
    /\ pc' = "iter"
    /\ UNCHANGED <<edge_map, result, yielded, flow, cons, files>>

BestNext ==
    /\ pc = "iter"
    /\ call.fn \in {"best_iter_from", "shortest_path"}
    /\ iter.queue # {}
    /\ \E weighted_path \in priority_pops(iter.queue) :
           /\ iter' = best_next(edge_map, call.weight, iter, weighted_path)
           /\ yielded' = Append(yielded, weighted_path)
           /\ result' = Some(weighted_path)
           /\ pc' = IF Last(weighted_path.path) = call.end THEN "done" ELSE "iter"
    /\ UNCHANGED <<edge_map, call, flow, cons, files>>

BestNextNone ==
    /\ pc = "iter"
    /\ call.fn \in {"best_iter_from", "shortest_path"}
    /\ iter.queue = {}
    /\ result' = None
    /\ pc' = "exhausted"
    /\ UNCHANGED <<edge_map, call, iter, yielded, flow, cons, files>>

InitBest == InitTopo

NextBest ==
    \/ \E e \in Vertices \X Vertices : AddEdge(e, MaxBestEdges)
    \/ BestIterFrom
    \/ BestNext
    \/ BestNextNone

SpecBest == InitBest /\ [][NextBest]_vars

\* ----------------------------------------------------- SpecConstrained
\* constrained_best_iter_from on its own (end = 0, no vertex) or inside
\* a_star::constrained_shortest_path.  The iterator may hold ever longer
\* paths; a call to next() that would queue a path of more than MaxHeldLen
\* vertices is left out.
ConstraintLists ==
    { <<>>,
      <<ContainsVertex(3)>>,
      <<MaxLength(2)>>,
      <<MinLength(3), MaxLength(3)>>,
      <<Not(ContainsVertex(3)), MaxLength(3)>>,
      <<MaxScore(0)>> }

ConstrainedBestIterFrom ==
    /\ pc = "build"
    /\ \E start \in Vertices, end \in Vertices \cup {NoVertex},
          weight \in [EdgeSet(edge_map) -> Costs], constraints \in ConstraintLists :
           /\ call' = [fn |-> IF end = NoVertex THEN "constrained_best_iter_from"
                              ELSE "constrained_shortest_path",
                       weight |-> weight, start |-> start, end |-> end,
                       constraints |-> constraints]
           /\ iter' = constrained_best_iter_from(weight, constraints, start)
    /\ pc' = "iter"
    /\ UNCHANGED <<edge_map, result, yielded, flow, cons, files>>

ConstrainedNext ==
    /\ pc = "iter"
    /\ call.fn \in {"constrained_best_iter_from", "constrained_shortest_path"}
    /\ iter.queue # {}
    /\ \E weighted_path \in min_priority_pops(iter.queue) :
           /\ iter' = constrained_best_next(edge_map, call.weight, iter, weighted_path)
           /\ \A sp \in iter'.queue : Len(sp.path) <= MaxHeldLen
           /\ yielded' = Append(yielded, weighted_path)
           /\ result' = Some(weighted_path)
           /\ pc' = IF Last(weighted_path.path) = call.end THEN "done" ELSE "iter"
    /\ UNCHANGED <<edge_map, call, flow, cons, files>>

ConstrainedNextNone ==
    /\ pc = "iter"
    /\ call.fn \in {"constrained_best_iter_from", "constrained_shortest_path"}
    /\ iter.queue = {}
    /\ result' = None
    /\ pc' = "exhausted"
    /\ UNCHANGED <<edge_map, call, iter, yielded, flow, cons, files>>

InitConstrained == InitTopo

NextConstrained ==
    \/ \E e \in Vertices \X Vertices : AddEdge(e, MaxConEdges)
    \/ ConstrainedBestIterFrom
    \/ ConstrainedNext
    \/ ConstrainedNextNone

SpecConstrained == InitConstrained /\ [][NextConstrained]_vars

\* ------------------------------------------------------------ SpecFlow
\* The networks are built from the edges of FlowEdges, added in the order of
\* the list, each with a capacity of Capacities.
FlowEdges ==
    << <<1, 2>>, <<1, 3>>, <<2, 4>>, <<2, 5>>, <<3, 4>>, <<4, 2>>, <<4, 6>>, <<5, 6>> >>

FlowSources == {1}
FlowSinks == {5, 6}

FlowAddEdge ==
    \E i \in 1..Len(FlowEdges) :
        /\ \A j \in i..Len(FlowEdges) : ~contains_edge(edge_map, FlowEdges[j])
        /\ AddEdge(FlowEdges[i], MaxFlowEdges)

\* max_flow up to its loop: every edge of graph.edges() at
\* (0, capacity(edge)), whatever the order they come in, and the total 0.
MaxFlow ==
    /\ pc = "build"
    /\ \E start \in FlowSources, end \in FlowSinks,
          capacity \in [EdgeSet(edge_map) -> Capacities] :
           /\ call' = [fn |-> "max_flow", capacity |-> capacity, start |-> start, end |-> end]
           /\ flow' = [current_flow |->
                           [edge \in EdgeSet(edge_map) |-> <<0, capacity[edge]>>],
                       max_flow |-> 0]
    /\ pc' = "flow"
    /\ UNCHANGED <<edge_map, result, iter, yielded, cons, files>>

\* One turn of the loop: an augmenting path is found and the flow updated.
MaxFlowAugment ==
    /\ pc = "flow"
    /\ LET found == find_augmenting_path(edge_map, flow.current_flow, call.start, call.end)
       IN /\ found # Panic
          /\ found.some
          /\ flow' = [current_flow |-> update_flow(flow.current_flow, found.val[1], found.val[2]),
                      max_flow |-> flow.max_flow + found.val[2]]
          /\ yielded' = Append(yielded, found.val)
    /\ UNCHANGED <<edge_map, pc, call, result, iter, cons, files>>

\* No augmenting path is found: the loop ends and max_flow returns.
MaxFlowReturn ==
    /\ pc = "flow"
    /\ find_augmenting_path(edge_map, flow.current_flow, call.start, call.end) = None
    /\ result' = Some(<<flow.max_flow, flow.current_flow>>)
    /\ pc' = "done"
    /\ UNCHANGED <<edge_map, call, iter, yielded, flow, cons, files>>

InitFlow == InitTopo

NextFlow ==
    \/ FlowAddEdge
    \/ MaxFlow
    \/ MaxFlowAugment
    \/ MaxFlowReturn

SpecFlow == InitFlow /\ [][NextFlow]_vars

\* ---------------------------------------------------------- SpecSearch
\* The four traversal iterators, each created on a built graph at any start
\* vertex (in the graph or not) and drained by calls to next().
BfsIterFrom ==
    /\ pc = "build"
    /\ \E start_vertex \in Vertices :
           /\ call' = [fn |-> "bfs_iter_from", start |-> start_vertex]
           /\ iter' = bfs_iter_from(start_vertex)
    /\ pc' = "iter"
    /\ UNCHANGED <<edge_map, result, yielded, flow, cons, files>>

DfsIterFrom ==
    /\ pc = "build"
    /\ \E start_vertex \in Vertices :
           /\ call' = [fn |-> "dfs_iter_from", start |-> start_vertex]
           /\ iter' = dfs_iter_from(start_vertex)
    /\ pc' = "iter"
    /\ UNCHANGED <<edge_map, result, yielded, flow, cons, files>>

BfsPathIterFrom ==
    /\ pc = "build"
    /\ \E start_vertex \in Vertices :
           /\ call' = [fn |-> "bfs_path_iter_from", start |-> start_vertex]
           /\ iter' = bfs_path_iter_from(start_vertex)
    /\ pc' = "iter"
    /\ UNCHANGED <<edge_map, result, yielded, flow, cons, files>>

DfsIterPathFrom ==
    /\ pc = "build"
    /\ \E start_vertex \in Vertices :
           /\ call' = [fn |-> "dfs_iter_path_from", start |-> start_vertex]
           /\ iter' = dfs_iter_path_from(start_vertex)
    /\ pc' = "iter"
    /\ UNCHANGED <<edge_map, result, yielded, flow, cons, files>>

BfsNext ==
    /\ pc = "iter"
    /\ call.fn = "bfs_iter_from"
    /\ LET r == bfs_next(edge_map, iter)
       IN /\ iter' = r.iter
          /\ result' = r.item
          /\ yielded' = IF r.item.some THEN Append(yielded, r.item.val) ELSE yielded
          /\ pc' = IF r.item.some THEN "iter" ELSE "exhausted"
    /\ UNCHANGED <<edge_map, call, flow, cons, files>>

DfsNext ==
    /\ pc = "iter"
    /\ call.fn = "dfs_iter_from"
    /\ LET r == dfs_next(edge_map, iter)
       IN /\ iter' = r.iter
          /\ result' = r.item
          /\ yielded' = IF r.item.some THEN Append(yielded, r.item.val) ELSE yielded
          /\ pc' = IF r.item.some THEN "iter" ELSE "exhausted"
    /\ UNCHANGED <<edge_map, call, flow, cons, files>>

BfsPathNext ==
    /\ pc = "iter"
    /\ call.fn = "bfs_path_iter_from"
    /\ LET r == bfs_path_next(edge_map, iter)
       IN /\ iter' = r.iter
          /\ result' = r.item
          /\ yielded' = IF r.item.some THEN Append(yielded, r.item.val) ELSE yielded
          /\ pc' = IF r.item.some THEN "iter" ELSE "exhausted"
    /\ UNCHANGED <<edge_map, call, flow, cons, files>>

DfsPathNext ==
    /\ pc = "iter"
    /\ call.fn = "dfs_iter_path_from"
    /\ LET r == dfs_path_next(edge_map, iter)
       IN /\ iter' = r.iter
          /\ result' = r.item
          /\ yielded' = IF r.item.some THEN Append(yielded, r.item.val) ELSE yielded
          /\ pc' = IF r.item.some THEN "iter" ELSE "exhausted"
    /\ UNCHANGED <<edge_map, call, flow, cons, files>>

InitSearch == InitTopo

NextSearch ==
    \/ \E e \in Vertices \X Vertices : AddEdge(e, MaxSearchEdges)
    \/ BfsIterFrom
    \/ DfsIterFrom
    \/ BfsPathIterFrom
    \/ DfsIterPathFrom
    \/ BfsNext
    \/ DfsNext
    \/ BfsPathNext
    \/ DfsPathNext

SpecSearch == InitSearch /\ [][NextSearch]_vars

\* ------------------------------------------------------- SpecCanonical
\* A Cycle is built by from_vertices from any list of vertices, and the
\* caller then calls canonical() (keeping what it returns) and
\* is_canonical() on what it holds, any number of times.
VertexLists == UNION {[1..n -> CycleIds] : n \in 0..MaxCycleLen}

FromVertices ==
    /\ pc = "build"
    /\ result' = from_vertices(call.vertices)
    /\ call' = [fn |-> "from_vertices", arg |-> call.vertices,
                ret |-> from_vertices(call.vertices)]
    /\ pc' = IF from_vertices(call.vertices).some THEN "cycle" ELSE "done"
    /\ UNCHANGED <<edge_map, iter, yielded, flow, cons, files>>

Canonical ==
    /\ pc = "cycle"
    /\ result' = Some(canonical(result.val))
    /\ call' = [fn |-> "canonical", arg |-> result.val, ret |-> canonical(result.val)]
    /\ UNCHANGED <<edge_map, pc, iter, yielded, flow, cons, files>>

IsCanonical ==
    /\ pc = "cycle"
    /\ call' = [fn |-> "is_canonical", arg |-> result.val, ret |-> is_canonical(result.val)]
    /\ UNCHANGED <<edge_map, pc, result, iter, yielded, flow, cons, files>>

InitCanonical ==
    /\ edge_map = EmptyGraph
    /\ pc = "build"
    /\ call \in {[fn |-> "input", vertices |-> vs] : vs \in VertexLists}
    /\ result = None
    /\ iter = Idle
    /\ yielded = <<>>
    /\ flow = Idle
    /\ files = {}
    /\ cons = Idle

NextCanonical ==
    \/ FromVertices
    \/ Canonical
    \/ IsCanonical

SpecCanonical == InitCanonical /\ [][NextCanonical]_vars

\* --------------------------------------------------------- SpecCommand
\* A graph is made by applying any commands one by one, listed by
\* as_commands, and the list applied to a new graph by apply_commands.
Commands ==
    {CmdAddVertex(v) : v \in Vertices} \cup {CmdRemoveVertex(v) : v \in Vertices}
        \cup {CmdAddEdge(e[1], e[2]) : e \in Vertices \X Vertices}
        \cup {CmdRemoveEdge(e[1], e[2]) : e \in Vertices \X Vertices}

ApplyTo(command) ==
    /\ pc = "build"
    /\ Cardinality(EdgeSet(apply_to(command, edge_map))) <= MaxCommandEdges
    /\ edge_map' = apply_to(command, edge_map)
    /\ UNCHANGED <<pc, call, result, iter, yielded, flow, cons, files>>

AsCommands ==
    /\ pc = "build"
    /\ \E order \in Orders(DOMAIN edge_map) :
           /\ call' = [fn |-> "as_commands"]
           /\ result' = Some(as_commands(edge_map, order))
    /\ pc' = "listed"
    /\ UNCHANGED <<edge_map, iter, yielded, flow, cons, files>>

ApplyCommands ==
    /\ pc = "listed"
    /\ call' = [fn |-> "apply_commands", commands |-> result.val]
    /\ result' = Some(apply_commands(result.val, EmptyGraph))
    /\ pc' = "done"
    /\ UNCHANGED <<edge_map, iter, yielded, flow, cons, files>>

InitCommand == InitTopo

NextCommand ==
    \/ \E command \in Commands : ApplyTo(command)
    \/ AsCommands
    \/ ApplyCommands

SpecCommand == InitCommand /\ [][NextCommand]_vars

\* ------------------------------------------------------------ SpecLock
\* Command-line processes on the same root directory, each in with_lock:
\* lock, then the block, then unlock.  The processes interleave between
\* these file-system calls.  pc[p] is where process p is, call[p] what its
\* call to lock found, result[p] what its last with_lock returned.
WithLockLock(p) ==
    /\ pc[p] = "idle"
    /\ call[p].runs < MaxRuns
    /\ files' = lock(files).files
    /\ call' = [call EXCEPT ![p] = [fn |-> "with_lock", runs |-> @.runs + 1,
                                    was_locked |-> is_locked(files)]]
    /\ pc' = [pc EXCEPT ![p] = IF lock(files).ret = "Ok" THEN "block" ELSE "idle"]
    /\ result' = [result EXCEPT ![p] = IF lock(files).ret = "Ok" THEN None ELSE Some("Err")]
    /\ UNCHANGED <<edge_map, iter, yielded, flow, cons>>

\* The block runs to its end.
WithLockBlock(p) ==
    /\ pc[p] = "block"
    /\ pc' = [pc EXCEPT ![p] = "unlock"]
    /\ UNCHANGED <<edge_map, call, result, iter, yielded, flow, cons, files>>

WithLockUnlock(p) ==
    /\ pc[p] = "unlock"
    /\ files' = unlock(files).files
    /\ result' = [result EXCEPT ![p] = Some(unlock(files).ret)]
    /\ pc' = [pc EXCEPT ![p] = "idle"]
    /\ UNCHANGED <<edge_map, call, iter, yielded, flow, cons>>

InitLock ==
    /\ edge_map = EmptyGraph
    /\ pc = [p \in Procs |-> "idle"]
    /\ call = [p \in Procs |-> [fn |-> "with_lock", runs |-> 0, was_locked |-> FALSE]]
    /\ result = [p \in Procs |-> None]
    /\ iter = Idle
    /\ yielded = <<>>
    /\ flow = Idle
    /\ cons = Idle
    /\ files = {}

NextLock ==
    \/ \E p \in Procs : WithLockLock(p)
    \/ \E p \in Procs : WithLockBlock(p)
    \/ \E p \in Procs : WithLockUnlock(p)

SpecLock == InitLock /\ [][NextLock]_vars

\* ------------------------------------------------------------ SpecSpfa
\* spfa on a built graph, one turn of its while loop at a time.  On a
\* negative-weight cycle the loop has no end; the caller gives up after
\* MaxSpfaTurns turns.
Spfa ==
    /\ pc = "build"
    /\ \E start \in Vertices, scorefn \in [EdgeSet(edge_map) -> Weights] :
           /\ call' = [fn |-> "spfa", scorefn |-> scorefn, start |-> start]
           /\ iter' = [scores |-> spfa_new(start).scores, q |-> spfa_new(start).q, turns |-> 0]
    /\ pc' = "spfa"
    /\ UNCHANGED <<edge_map, result, yielded, flow, cons, files>>

SpfaTurn ==
    /\ pc = "spfa"
    /\ iter.q # <<>>
    /\ iter.turns < MaxSpfaTurns
    /\ iter' = [scores |-> spfa_turn(edge_map, call.scorefn, iter).scores,
                q |-> spfa_turn(edge_map, call.scorefn, iter).q,
                turns |-> iter.turns + 1]
    /\ UNCHANGED <<edge_map, pc, call, result, yielded, flow, cons, files>>

SpfaReturn ==
    /\ pc = "spfa"
    /\ iter.q = <<>>
    /\ result' = Returned(iter.scores)
    /\ pc' = "done"
    /\ UNCHANGED <<edge_map, call, iter, yielded, flow, cons, files>>

InitSpfa == InitTopo

NextSpfa ==
    \/ \E e \in Vertices \X Vertices : AddEdge(e, MaxSpEdges)
    \/ Spfa
    \/ SpfaTurn
    \/ SpfaReturn

SpecSpfa == InitSpfa /\ [][NextSpfa]_vars

\* -------------------------------------------------------- SpecFlowLoop
\* max_flow between any two of LoopEnds, the source and the sink being the
\* same vertex included, on the networks of up to MaxLoopEdges edges of
\* FlowEdges.
LoopEnds == {1, 4, 6}

LoopAddEdge ==
    \E i \in 1..Len(FlowEdges) :
        /\ \A j \in i..Len(FlowEdges) : ~contains_edge(edge_map, FlowEdges[j])
        /\ AddEdge(FlowEdges[i], MaxLoopEdges)

MaxFlowBetween ==
    /\ pc = "build"
    /\ \E start \in LoopEnds \ {6}, end \in LoopEnds \ {1},
          capacity \in [EdgeSet(edge_map) -> Capacities] :
           /\ call' = [fn |-> "max_flow", capacity |-> capacity, start |-> start, end |-> end]
           /\ flow' = [current_flow |->
                           [edge \in EdgeSet(edge_map) |-> <<0, capacity[edge]>>],
                       max_flow |-> 0]
    /\ pc' = "flow"
    /\ UNCHANGED <<edge_map, result, iter, yielded, cons, files>>

\* The search panics: max_flow does not return.
MaxFlowPanic ==
    /\ pc = "flow"
    /\ find_augmenting_path(edge_map, flow.current_flow, call.start, call.end) = Panic
    /\ result' = Panic
    /\ pc' = "done"
    /\ UNCHANGED <<edge_map, call, iter, yielded, flow, cons, files>>

InitFlowLoop == InitTopo

NextFlowLoop ==
    \/ LoopAddEdge
    \/ MaxFlowBetween
    \/ MaxFlowAugment
    \/ MaxFlowReturn
    \/ MaxFlowPanic

SpecFlowLoop == InitFlowLoop /\ [][NextFlowLoop]_vars

\* -------------------------------------------------------------- claims
IndexOf(s, x) == CHOOSE i \in 1..Len(s) : s[i] = x

\* C3: on an acyclic graph topological_sort returns Some(list); the list
\* holds every vertex of the graph (isolated ones included) exactly once
\* and, for every edge (u, v), u comes before v.
C3_TopoSortOnDag ==
    (pc = "done" /\ call.fn = "topological_sort" /\ ~HasCycle(edge_map)) =>
        /\ result.some
        /\ Len(result.val) = Cardinality(DOMAIN edge_map)
        /\ Range(result.val) = DOMAIN edge_map
        /\ \A e \in EdgeSet(edge_map) :
               IndexOf(result.val, e[1]) < IndexOf(result.val, e[2])

C3_Witness ==
    /\ pc = "done" /\ call.fn = "topological_sort" /\ ~HasCycle(edge_map)
    /\ result.some
    /\ Len(result.val) = 3
    /\ EdgeSet(edge_map) # {}
    /\ \E v \in DOMAIN edge_map : edge_map[v] = <<>>

\* C4: on a graph with a directed cycle (a self-loop included)
\* topological_sort returns None and is_dag returns false.
C4_CycleGivesNone ==
    (pc = "done" /\ HasCycle(edge_map)) =>
        /\ call.fn = "topological_sort" => result = None
        /\ call.fn = "is_dag" => result = FALSE

\* The map `scores` holds, exactly for the vertices reachable from start, a
\* path from start along edges of the graph whose score is its weight and
\* is the least weight of a path from start.
ShortestPathsMap(scores, E, scorefn, start) ==
    /\ DOMAIN scores = ReachSet(E, {start})
    /\ \A v \in DOMAIN scores :
           /\ scores[v].path[1] = start
           /\ Last(scores[v].path) = v
           /\ FollowsEdges(E, scores[v].path)
           /\ scores[v].score = PathWeight(scores[v].path, scorefn)
           /\ scores[v].score = MinDist(E, scorefn, start, v)

\* C5: on a DAG, for every weight function and every start vertex of the
\* graph, dag_shortest_paths returns a map whose keys are the vertices
\* reachable from start, each with a least-weight path from start to it.
C5_DagShortestPaths ==
    (/\ pc = "done" /\ call.fn = "dag_shortest_paths"
     /\ ~HasCycle(edge_map) /\ call.start \in DOMAIN edge_map) =>
        /\ ~result.panic
        /\ ShortestPathsMap(result.val, EdgeSet(edge_map), call.scorefn, call.start)

\* C6: bellman_ford returns None exactly when a negative-weight cycle is
\* reachable from start; otherwise its map has an entry exactly for the
\* vertices reachable from start, each with the least weight of a path.
C6_BellmanFord ==
    (pc = "done" /\ call.fn = "bellman_ford") =>
        LET E == EdgeSet(edge_map)
        IN /\ (result = None) <=> NegCycleReachable(E, call.scorefn, call.start)
           /\ result.some =>
                  /\ DOMAIN result.val = ReachSet(E, {call.start})
                  /\ \A v \in DOMAIN result.val :
                         result.val[v].score = MinDist(E, call.scorefn, call.start, v)

C6_Witness ==
    /\ pc = "done" /\ call.fn = "bellman_ford"
    /\ result.some
    /\ HasCycle(edge_map)
    /\ \E v \in DOMAIN result.val : result.val[v].score < 0 /\ Len(result.val[v].path) = 3

\* C1: constraint soundness.  When check_complete accepts a path, then
\* check_partial accepts every non-empty prefix of it whose score is not
\* greater than the score of the whole path.
C1_ConstraintSoundness ==
    (pc = "checked" /\ cons.complete) =>
        \A x \in DOMAIN cons.partial : cons.partial[x]

C1_Witness ==
    /\ pc = "checked" /\ cons.complete
    /\ cons.constraint.kind = "Xor"
    /\ cons.constraint.c1.kind = "Not"
    /\ cons.constraint.c1.c1.kind = "ContainsVertex"
    /\ Len(cons.full.path) = 2
    /\ <<1, -1>> \in DOMAIN cons.partial

\* The simple directed cycles of E through a vertex reachable from S, each
\* as the one rotation of its vertex list that starts with its least vertex.
IsRealCycle(E, vs) ==
    /\ FollowsEdges(E, vs)
    /\ <<Last(vs), vs[1]>> \in E

NoRepeat(vs) == \A i, j \in 1..Len(vs) : i # j => vs[i] # vs[j]

ReachableCanonicalCycles(E, S) ==
    {q \in UNION {SimplePathsFrom(E, x) : x \in ReachSet(E, S)} :
        /\ <<Last(q), q[1]>> \in E
        /\ \A i \in 1..Len(q) : q[1] <= q[i]}

\* C8: cycle_iter emits exactly the simple cycles reachable from its start
\* vertices: every emitted sequence is a real cycle of the graph with no
\* repeated vertex, in canonical form, none is emitted twice, and when the
\* iterator is exhausted every such cycle has been emitted.
C8_CycleIterExact ==
    (pc \in {"iter", "exhausted"}) =>
        /\ \A i \in 1..Len(yielded) :
               /\ IsRealCycle(EdgeSet(edge_map), yielded[i])
               /\ NoRepeat(yielded[i])
               /\ \A k \in 1..Len(yielded[i]) : yielded[i][1] <= yielded[i][k]
               /\ yielded[i] \in ReachableCanonicalCycles(EdgeSet(edge_map), call.starts)
        /\ NoRepeat(yielded)
        /\ pc = "exhausted" =>
               Range(yielded) = ReachableCanonicalCycles(EdgeSet(edge_map), call.starts)

C8_Witness ==
    /\ pc = "exhausted"
    /\ Len(yielded) = 3
    /\ \E i, j \in 1..Len(yielded) :
           /\ Len(yielded[i]) = 1
           /\ Len(yielded[j]) = 2
           /\ Range(yielded[i]) \subseteq Range(yielded[j])

\* C9: with the zero heuristic and non-negative edge weights,
\* a_star::shortest_path returns a path from start to end of the least cost
\* among all paths from start to end when end is reachable from start, and
\* None when it is not.
C9_AStarShortest ==
    (pc \in {"done", "exhausted"} /\ call.fn = "shortest_path") =>
        LET E == EdgeSet(edge_map)
        IN IF call.end \in ReachSet(E, {call.start})
           THEN /\ result.some
                /\ result.val.path[1] = call.start
                /\ Last(result.val.path) = call.end
                /\ FollowsEdges(E, result.val.path)
                /\ path_cost(call.weight, result.val.path)
                       = MinDist(E, call.weight, call.start, call.end)
           ELSE result = None

\* Every walk of the edge set E from s of at most n vertices.
RECURSIVE WalksFrom(_, _, _)
WalksFrom(E, s, n) ==
    IF n <= 1 THEN {<<s>>}
    ELSE LET W == WalksFrom(E, s, n - 1)
         IN W \cup {Append(w, e[2]) : <<w, e>> \in {x \in W \X E : x[2][1] = Last(x[1])}}

SatisfiesAll(constraints, sp) ==
    \A i \in 1..Len(constraints) : check_complete(constraints[i], sp)

\* C10: the path a_star::constrained_shortest_path returns ends at the end
\* vertex and satisfies check_complete for every constraint of the list, and
\* the function returns None when no path from start to end satisfies all of
\* them.
C10_ConstrainedResult ==
    (pc \in {"done", "exhausted"} /\ call.fn = "constrained_shortest_path") =>
        /\ result.some =>
               /\ Last(result.val.path) = call.end
               /\ SatisfiesAll(call.constraints, result.val)
        /\ (~\E w \in WalksFrom(EdgeSet(edge_map), call.start, MaxHeldLen) :
                /\ Last(w) = call.end
                /\ SatisfiesAll(call.constraints,
                                scored_path_of(w, f_score(call.weight, w))))
               => result = None

\* The queue holds a path whose last vertex leads into a cycle.
CanLoop ==
    \E sp \in iter.queue :
        \E v \in ReachSet(EdgeSet(edge_map), {Last(sp.path)}) : OnCycle(EdgeSet(edge_map), v)

\* With the empty constraint list a queue that can loop can loop after every
\* next(): the call does not return None and the queue is never drained.
QueueNeverDrains ==
    [][(pc = "iter" /\ call.fn = "constrained_best_iter_from"
            /\ call.constraints = <<>> /\ CanLoop)
        => (pc' = "iter" /\ CanLoop')]_vars

\* C7: every traversal iterator terminates on every finite graph, cyclic
\* graphs included, constrained_best_iter_from with the empty constraint
\* list among them: repeated calls to next() come to None.  An iterator
\* that comes to None has never walked round a cycle of the graph, for a
\* queue holding such a path is never drained (QueueNeverDrains): so the
\* paths it holds visit no vertex twice.
C7_IteratorsTerminate ==
    (pc = "iter" /\ call.fn = "constrained_best_iter_from" /\ call.constraints = <<>>) =>
        \A sp \in iter.queue : ~path_contains_cycle(sp.path)

\* The capacity of the cut that leaves the vertices of S on the source's side.
RECURSIVE SumOver(_, _)
SumOver(f, S) ==
    IF S = {} THEN 0
    ELSE LET x == CHOOSE y \in S : TRUE IN f[x] + SumOver(f, S \ {x})

CutCapacity(E, capacity, S) == SumOver(capacity, {e \in E : e[1] \in S /\ e[2] \notin S})

MinCut(E, capacity, source, sink) ==
    LET others == ({e[1] : e \in E} \cup {e[2] : e \in E}) \ {source, sink}
    IN Min({CutCapacity(E, capacity, S \cup {source}) : S \in SUBSET others})

\* The residual graph: an edge forward while flow < capacity, backward while
\* flow > 0.
ResidualEdges(current_flow) ==
    {e \in DOMAIN current_flow : current_flow[e][1] < current_flow[e][2]}
        \cup {reverse(e) : e \in {d \in DOMAIN current_flow : current_flow[d][1] > 0}}

\* C2: the total max_flow returns is the capacity of a minimum cut between
\* the source and the sink, and at the return the residual graph has no path
\* from the source to the sink.
C2_MaxFlowIsMinCut ==
    (pc = "done" /\ call.fn = "max_flow") =>
        /\ result.val[1] = MinCut(EdgeSet(edge_map), call.capacity, call.start, call.end)
        /\ call.end \notin ReachSet(ResidualEdges(result.val[2]), {call.start})

\* C11: every call to next() of a best-first iterator yields the queued
\* path with the lowest score: the score of the yielded path is at most the
\* score of every path that was in the priority queue at the pop.
C11_LowestFirst ==
    [][(pc = "iter" /\ Len(yielded') = Len(yielded) + 1) =>
           \A sp \in iter.queue : Last(yielded').score <= sp.score]_vars

\* The incompatibilities validate scans a list for.
RequiredVertices(constraints) ==
    {c.v : c \in Range(OfKind(constraints, "ContainsVertex"))}
    \cup UNION {{c.e[1], c.e[2]} : c \in Range(OfKind(constraints, "ContainsEdge"))}

Incompatible(constraints) ==
    LET cs == Range(constraints)
        Count(kind) == Len(OfKind(constraints, kind))
    IN \/ \E v \in RequiredVertices(constraints) : Not(ContainsVertex(v)) \in cs
       \/ \E c \in cs : c.kind = "ContainsEdge" /\ Not(c) \in cs
       \/ ContainsCycle \in cs /\ Not(ContainsCycle) \in cs
       \/ \E kind \in {"MinLength", "MaxLength", "MinScore", "MaxScore"} : Count(kind) > 1
       \/ \E a, b \in cs : a.kind = "MinLength" /\ b.kind = "MaxLength" /\ a.len > b.len
       \/ \E a, b \in cs : a.kind = "MinScore" /\ b.kind = "MaxScore" /\ a.score > b.score

\* C12: validate returns Ok(()) for every constraint list that holds none of
\* the incompatibilities it scans for; the empty list and
\* [MinLength(3), MaxLength(5)] are two of them.
C12_ValidateAccepts ==
    (pc = "done" /\ call.fn = "validate" /\ ~Incompatible(call.constraints)) => result = ok

\* The paths a constraint list is tried on.
TriedPaths ==
    {scored_path_of(path, score) :
        path \in UNION {[1..n -> CVertices] : n \in 1..3}, score \in CScores}

\* C13: whenever validate returns Err the list is unsatisfiable: no
\* ScoredPath passes check_complete for every constraint of the list.
C13_ErrIsUnsatisfiable ==
    (pc = "done" /\ call.fn = "validate" /\ ~result.ok) =>
        ~\E full \in TriedPaths : SatisfiesAll(call.constraints, full)

\* How often the list of vertex v holds edge e.
StoredCount(g, v, e) == Len(SelectSeq(g[v], LAMBDA x : x = e))

StoredEdges(g) == UNION {Range(g[v]) : v \in DOMAIN g}

\* C14: after any sequence of mutations both endpoints of every stored edge
\* are vertex keys, an edge is stored only in the lists of its own
\* endpoints, every edge between two different vertices is stored exactly
\* once in the list of each endpoint, and every self-loop exactly once.
C14_WellFormed ==
    /\ \A e \in StoredEdges(edge_map) : e[1] \in DOMAIN edge_map /\ e[2] \in DOMAIN edge_map
    /\ \A v \in DOMAIN edge_map : \A e \in Range(edge_map[v]) : v \in {e[1], e[2]}
    /\ \A e \in StoredEdges(edge_map) :
           /\ StoredCount(edge_map, e[1], e) = 1
           /\ StoredCount(edge_map, e[2], e) = 1

C14_Witness ==
    /\ call # Idle
    /\ call.fn = "remove_vertex"
    /\ StoredEdges(call.before) # StoredEdges(edge_map)
    /\ \E v \in DOMAIN edge_map : <<v, v>> \in StoredEdges(edge_map)
    /\ \E e \in StoredEdges(edge_map) : e[1] # e[2]

\* C15: after any sequence of mutations, self-loops included, edge_count()
\* is the number of distinct edges for which contains_edge is true.
C15_EdgeCount == edge_count(edge_map) = Cardinality(EdgeSet(edge_map))

\* C16: a mutation applied twice in a row leaves vertex_count, edge_count
\* and the vertex and edge sets as the first application left them.
C16_Idempotent ==
    (call # Idle /\ call.again) =>
        /\ vertex_count(edge_map) = vertex_count(call.before)
        /\ edge_count(edge_map) = edge_count(call.before)
        /\ DOMAIN edge_map = DOMAIN call.before
        /\ EdgeSet(edge_map) = EdgeSet(call.before)

C16_Witness ==
    /\ call # Idle
    /\ call.again
    /\ call.fn = "add_edge"
    /\ call.arg[1] = call.arg[2]
    /\ Cardinality(EdgeSet(edge_map)) = 2

Incident(e, v) == v \in {e[1], e[2]}

\* C17: remove_vertex(v) removes v and every edge from or to v, self-loops
\* on v included, and leaves every other vertex and every other edge.
C17_CascadingDelete ==
    (call # Idle /\ call.fn = "remove_vertex") =>
        /\ DOMAIN edge_map = DOMAIN call.before \ {call.arg}
        /\ EdgeSet(edge_map) = {e \in EdgeSet(call.before) : ~Incident(e, call.arg)}
        /\ StoredEdges(edge_map) = {e \in StoredEdges(call.before) : ~Incident(e, call.arg)}

C17_Witness ==
    /\ call # Idle
    /\ call.fn = "remove_vertex"
    /\ <<call.arg, call.arg>> \in EdgeSet(call.before)
    /\ \E e \in EdgeSet(call.before) : e[1] # e[2] /\ Incident(e, call.arg)
    /\ EdgeSet(edge_map) # {}

\* C18: each mutation returns true if and only if the call changed the
\* vertex set or the edge set of the graph.
C18_ReturnsChanged ==
    call # Idle =>
        (call.ret <=> (\/ DOMAIN edge_map # DOMAIN call.before
                       \/ EdgeSet(edge_map) # EdgeSet(call.before)))

\* C19: contains_edge(u, v) is true exactly when (u, v) was added and not
\* removed since, directly or with u or v: a call makes it true when it adds
\* (u, v), false when it removes (u, v), u or v, and leaves it as it was
\* otherwise, so that adding (u, v) does not add (v, u) and removing (u, v)
\* does not remove (v, u).
C19_Directed ==
    IF call = Idle THEN EdgeSet(edge_map) = {}
    ELSE \A e \in Vertices \X Vertices :
             contains_edge(edge_map, e) <=>
                 IF call.fn = "add_edge" /\ call.arg = e THEN TRUE
                 ELSE IF call.fn = "remove_edge" /\ call.arg = e THEN FALSE
                 ELSE IF call.fn = "remove_vertex" /\ Incident(e, call.arg) THEN FALSE
                 ELSE contains_edge(call.before, e)

C19_Witness ==
    /\ call # Idle
    /\ call.fn = "remove_edge"
    /\ call.arg[1] # call.arg[2]
    /\ contains_edge(call.before, call.arg)
    /\ contains_edge(edge_map, <<call.arg[2], call.arg[1]>>)

\* The flow into and out of a vertex.
FlowIn(current_flow, v) ==
    SumOver([e \in DOMAIN current_flow |-> current_flow[e][1]],
            {e \in DOMAIN current_flow : e[2] = v})

FlowOut(current_flow, v) ==
    SumOver([e \in DOMAIN current_flow |-> current_flow[e][1]],
            {e \in DOMAIN current_flow : e[1] = v})

\* C20: after the initialisation and after every augmentation, and so in the
\* map returned, every edge has 0 <= flow <= capacity, every vertex but the
\* source and the sink has as much flow in as out, and the total is the net
\* flow that leaves the source.
C20_FlowInvariants ==
    (pc \in {"flow", "done"} /\ call.fn = "max_flow") =>
        LET cf == flow.current_flow
        IN /\ \A e \in DOMAIN cf : 0 <= cf[e][1] /\ cf[e][1] <= cf[e][2]
           /\ \A e \in DOMAIN cf : cf[e][2] = call.capacity[e]
           /\ \A v \in DOMAIN edge_map \ {call.start, call.end} :
                  FlowIn(cf, v) = FlowOut(cf, v)
           /\ flow.max_flow = FlowOut(cf, call.start) - FlowIn(cf, call.start)
           /\ pc = "done" => result.val = <<flow.max_flow, cf>>

C20_Witness ==
    /\ pc = "done"
    /\ call.fn = "max_flow"
    /\ Len(yielded) >= 2
    /\ \E i \in 1..Len(yielded) : yielded[i][2] = 2
    /\ \E i \in 1..Len(yielded) : yielded[i][2] = 1
    /\ \E e \in DOMAIN flow.current_flow :
           0 < flow.current_flow[e][1] /\ flow.current_flow[e][1] < flow.current_flow[e][2]

\* The edge distance of v from s: the fewest edges of a path from s to v.
EdgeDistance(E, s, v) ==
    Min({Len(q) - 1 : q \in {p \in SimplePathsFrom(E, s) : Last(p) = v}})

\* C21: bfs_iter_from and dfs_iter_from yield only vertices reachable from
\* the start vertex, none twice, and all of them once exhausted; and
\* bfs_iter_from yields them in non-decreasing edge distance from the start.
C21_ReachableOnce ==
    (pc \in {"iter", "exhausted"} /\ call.fn \in {"bfs_iter_from", "dfs_iter_from"}) =>
        /\ Range(yielded) \subseteq ReachSet(EdgeSet(edge_map), {call.start})
        /\ NoRepeat(yielded)
        /\ pc = "exhausted" => Range(yielded) = ReachSet(EdgeSet(edge_map), {call.start})
        /\ call.fn = "bfs_iter_from" =>
               \A i, j \in 1..Len(yielded) :
                   i < j => EdgeDistance(EdgeSet(edge_map), call.start, yielded[i])
                                <= EdgeDistance(EdgeSet(edge_map), call.start, yielded[j])

\* A breadth-first traversal of a cyclic graph, drained: the start lies on a
\* cycle and the three vertices came out at distances 0, 1 and 2.
C21_Witness ==
    /\ pc = "exhausted"
    /\ call.fn = "bfs_iter_from"
    /\ OnCycle(EdgeSet(edge_map), call.start)
    /\ Len(yielded) = 3
    /\ EdgeDistance(EdgeSet(edge_map), call.start, yielded[3]) = 2

\* C22: bfs_path_iter_from and dfs_iter_path_from yield only simple paths of
\* the graph that start at the start vertex, none twice, and all of them
\* once exhausted.
C22_SimplePathsExact ==
    (pc \in {"iter", "exhausted"}
        /\ call.fn \in {"bfs_path_iter_from", "dfs_iter_path_from"}) =>
        /\ \A i \in 1..Len(yielded) :
               /\ yielded[i][1] = call.start
               /\ FollowsEdges(EdgeSet(edge_map), yielded[i])
               /\ NoRepeat(yielded[i])
        /\ NoRepeat(yielded)
        /\ pc = "exhausted" =>
               Range(yielded) = SimplePathsFrom(EdgeSet(edge_map), call.start)

\* A depth-first path traversal of a cyclic graph, drained, with two
\* different paths to the same vertex among the four it yielded.
C22_Witness ==
    /\ pc = "exhausted"
    /\ call.fn = "dfs_iter_path_from"
    /\ OnCycle(EdgeSet(edge_map), call.start)
    /\ Len(yielded) = 4
    /\ \E i, j \in 1..Len(yielded) : i # j /\ Last(yielded[i]) = Last(yielded[j])

\* The rotations of a vertex list.
Rotations(vs) == {rotate_left(vs, k) : k \in 0..(Len(vs) - 1)}

\* C23: canonical() returns a rotation of the cycle's vertex list (same
\* length, same cyclic order) that starts with the least vertex; every
\* rotation of the list canonicalizes to that same value, canonical() of
\* the returned value is the value itself, is_canonical() holds of it, and
\* is_canonical() returns true exactly when the least vertex is first.
C23_Canonical ==
    /\ (pc = "cycle" /\ call.fn = "canonical") =>
           /\ Len(call.ret) = Len(call.arg)
           /\ call.ret \in Rotations(call.arg)
           /\ \A vs \in Rotations(call.arg) :
                  from_vertices(vs).some /\ canonical(vs) = call.ret
           /\ canonical(call.ret) = call.ret
           /\ is_canonical(call.ret)
           /\ \A i \in 1..Len(call.ret) : call.ret[1] <= call.ret[i]
    /\ (pc = "cycle" /\ call.fn = "is_canonical") =>
           (call.ret <=> \A i \in 1..Len(call.arg) : call.arg[1] <= call.arg[i])

\* canonical() has moved the least vertex of a four-vertex cycle from the
\* third place to the first.
C23_Witness ==
    /\ pc = "cycle"
    /\ call.fn = "canonical"
    /\ Len(call.arg) = 4
    /\ call.arg[3] = 1
    /\ call.ret # call.arg

\* C24: on every DAG, for every start vertex (in the graph or not, able to
\* reach the vertices after it in the topological order or not),
\* dag_shortest_paths returns without panicking, and its map has no entry
\* for a vertex that is not reachable from start.
C24_NeverPanics ==
    (pc = "done" /\ call.fn = "dag_shortest_paths" /\ ~HasCycle(edge_map)) =>
        /\ result # Panic
        /\ result.panic = FALSE =>
               DOMAIN result.val \subseteq ReachSet(EdgeSet(edge_map), {call.start})

\* C25: as_commands lists every AddVertex command before every AddEdge
\* command (and nothing else), and apply_commands of that list on an empty
\* graph gives a graph with the vertex set and the edge set of the listed
\* graph.
C25_CommandRoundTrip ==
    /\ pc = "listed" =>
           /\ \A i, j \in 1..Len(result.val) :
                  (result.val[i].cmd = "AddEdge" /\ result.val[j].cmd = "AddVertex") => j < i
           /\ \A i \in 1..Len(result.val) : result.val[i].cmd \in {"AddVertex", "AddEdge"}
    /\ pc = "done" =>
           /\ DOMAIN result.val = DOMAIN edge_map
           /\ EdgeSet(result.val) = EdgeSet(edge_map)
           /\ \A v \in DOMAIN edge_map :
                  Range(outbound_edges(result.val, v)) = Range(outbound_edges(edge_map, v))

\* The round trip of a graph with an isolated vertex, a self-loop and an
\* edge between two other vertices.
C25_Witness ==
    /\ pc = "done"
    /\ \E v \in DOMAIN edge_map : edge_map[v] = <<>>
    /\ \E v \in DOMAIN edge_map : contains_edge(edge_map, <<v, v>>)
    /\ \E e \in EdgeSet(edge_map) : e[1] # e[2]

\* C26: at most one process is in the block of with_lock at a time, and a
\* process whose call to lock found the lock file in place is not in its
\* block.
C26_MutualExclusion ==
    /\ Cardinality({p \in Procs : pc[p] = "block"}) <= 1
    /\ \A p \in Procs : pc[p] = "block" => ~call[p].was_locked

\* A path of vertices as the AugmentingPath the search holds once it has
\* followed the path's edges forward.
ForwardPath(p) == [i \in 1..Len(p) |-> <<p[i], "Forward">>]

\* C27: from a partial path ending at v, the augmenting-path search
\* enqueues, for every inbound edge (u, v) with u not on the path, the
\* extension to u marked Backward.
C27_BackwardEnqueued ==
    pc = "flow" =>
        \A p \in SimplePathsFrom(EdgeSet(edge_map), call.start) :
            \A e \in EdgeSet(edge_map) :
                (e[2] = Last(p) /\ e[1] \notin Range(p)) =>
                    \E i \in 1..Len(augmenting_extensions(edge_map, ForwardPath(p), Last(p))) :
                        augmenting_extensions(edge_map, ForwardPath(p), Last(p))[i]
                            = <<e[1], "Backward">>

\* C28: every Cycle emitted by cycle_iter has at least 2 vertices and no
\* repeated vertex.
C28_AtLeastTwoVertices ==
    (pc \in {"iter", "exhausted"} /\ call.fn = "cycle_iter") =>
        \A i \in 1..Len(yielded) : Len(yielded[i]) >= 2 /\ NoRepeat(yielded[i])

\* C29: with no negative-weight cycle reachable from start, spfa's loop
\* ends (its queue drains before the caller gives up) and the map it
\* returns has the keys and scores of bellman_ford's map, which are the
\* vertices reachable from start and their least path weights; on a DAG
\* they are also the keys and scores of dag_shortest_paths' map whenever
\* that function returns.
C29_SpfaAgrees ==
    LET E == EdgeSet(edge_map)
    IN (pc \in {"spfa", "done"} /\ call.fn = "spfa"
            /\ ~NegCycleReachable(E, call.scorefn, call.start)) =>
        /\ pc = "spfa" => (iter.q = <<>> \/ iter.turns < MaxSpfaTurns)
        /\ pc = "done" =>
            /\ DOMAIN result.val = ReachSet(E, {call.start})
            /\ \A order \in Orders(DOMAIN edge_map) :
                   LET bf == bellman_ford(edge_map, call.scorefn, call.start, order)
                       dag == dag_shortest_paths(edge_map, call.scorefn, call.start, order)
                   IN /\ bf.some
                      /\ DOMAIN bf.val = DOMAIN result.val
                      /\ \A v \in DOMAIN bf.val : bf.val[v].score = result.val[v].score
                      /\ (~HasCycle(edge_map) /\ dag # Panic) =>
                             /\ DOMAIN dag.val = DOMAIN result.val
                             /\ \A v \in DOMAIN dag.val :
                                    dag.val[v].score = result.val[v].score

\* spfa has returned after it improved the score of a vertex it had already
\* scored and queued it again: more turns than vertices, a negative score
\* reached over two edges.
C29_Witness ==
    /\ pc = "done" /\ call.fn = "spfa"
    /\ iter.turns > Cardinality(DOMAIN result.val)
    /\ \E v \in DOMAIN result.val : result.val[v].score < 0 /\ Len(result.val[v].path) = 3

\* The total of the capacities of the edges that leave v.
CapacityOut(capacity, v) ==
    SumOver(capacity, {e \in DOMAIN capacity : e[1] = v})

\* C30: max_flow's loop ends: every path the search can hold repeats no
\* vertex, every accepted augmentation follows such a path and raises the
\* total by at least 1, the total is the sum of the augmentations, and it
\* never exceeds the total capacity of the edges leaving the source, so
\* there are at most that many augmentations.
C30_FlowLoopEnds ==
    (pc \in {"flow", "done"} /\ call.fn = "max_flow") =>
        /\ \A p \in SimplePathsFrom(EdgeSet(edge_map), call.start) :
               \A i \in 1..Len(augmenting_extensions(edge_map, ForwardPath(p), Last(p))) :
                   augmenting_extensions(edge_map, ForwardPath(p), Last(p))[i][1]
                       \notin Range(p)
        /\ \A k \in 1..Len(yielded) :
               /\ yielded[k][2] >= 1
               /\ NoRepeat([i \in 1..Len(yielded[k][1]) |-> yielded[k][1][i][1]])
        /\ flow.max_flow = SumOver([k \in 1..Len(yielded) |-> yielded[k][2]], 1..Len(yielded))
        /\ flow.max_flow <= CapacityOut(call.capacity, call.start)
        /\ Len(yielded) <= CapacityOut(call.capacity, call.start)

\* max_flow has returned after two augmentations that together fill every
\* edge leaving the source.
C30_Witness ==
    /\ pc = "done" /\ call.fn = "max_flow"
    /\ result # Panic
    /\ Len(yielded) = 2
    /\ flow.max_flow = CapacityOut(call.capacity, call.start)
    /\ flow.max_flow >= 3

====
